---- MODULE Spec2Model ----
(***************************************************************************)
(* Model of the whisp media processor: the HTTP entry point               *)
(* (src/app/routes.py), the per-request configuration (src/app/driver.py) *)
(* and the pipeline orchestrator VideoPipeline.run with the stages it     *)
(* calls (src/app/worker.py).                                             *)
(*                                                                         *)
(* The command line entry points (main of src/app/worker.py, and the       *)
(* script src/worker.py with its own run) are separate programs, chosen   *)
(* by entry.  SpecThreaded is the HTTP entry point on a threaded server,   *)
(* with set_config taken statement by statement.                           *)
(*                                                                         *)
(* One run of VideoPipeline.run is a sequential process whose position is *)
(* pc.  External collaborators (ffmpeg, the object store, whisper, the    *)
(* local file system) answer nondeterministically with every outcome the  *)
(* calling code distinguishes: success, a reported failure, or an         *)
(* exception the callee does not catch.                                    *)
(***************************************************************************)
EXTENDS Naturals, Sequences, FiniteSets, TLC

\* ---------------------------------------------------------------- bounds
\* chunk indices of the model range over 0..MaxIndex
MaxIndex == 1
\* number of requests POSTed to /submit in one behaviour
MaxSubmits == 2

\* format_timestamp is applied to every time of 0..MaxMillis milliseconds
MaxMillis == 1100

\* a result of model.transcribe has at most this many segments
MaxSegments == 3

\* transcribe_audio is called at most this many times on one transcriber
MaxCalls == 4

\* ---------------------------------------------------------------- values
None == "None"

\* transcript_paths when transcribe_audio returned None (a falsy value)
NoPaths == << >>

\* listed before list_objects_v2 has answered; afterwards << the set of objects >>
NotListed == << >>

\* A path or an identifier is the sequence of the components its string has
\* between the separators "/": "m1" is << "m1" >>, "t1/u1" is << "t1", "u1" >>.
\* The empty sequence stands for the values that are falsy in Python: None and
\* the empty string.
NoId == << >>

PREFIX == "recordings"

Tracks == {"video", "audio"}

\* a chunk file <track>_<index>.webm
Chunks == [track : Tracks, index : 0..MaxIndex]

\* object keys come back from list_objects_v2 in key order: audio_* before video_*
KeyLess(a, b) ==
    \/ a.track = "audio" /\ b.track = "video"
    \/ a.track = b.track /\ a.index < b.index

RECURSIVE ListingOf(_)
ListingOf(S) ==
    IF S = {} THEN << >>
    ELSE LET first == CHOOSE x \in S : \A y \in S \ {x} : KeyLess(x, y)
         IN  <<first>> \o ListingOf(S \ {first})

\* the steps of run, in program order
StepOrder ==
    << "DirectorySetup", "ToolPreflight", "Fetch", "Locate", "AssembleVideo",
       "AssembleAudio", "ExtractAudioForTranscription", "Transcribe",
       "SaveAudio", "Mux", "Publish", "Cleanup" >>

Steps == { StepOrder[i] : i \in 1..Len(StepOrder) }

VARIABLES
    pc,                 \* position of the current run
    entry,              \* the program: the HTTP service, main of app/worker.py, a
                        \* direct caller of run, or the script src/worker.py
    cli,                \* the run of the command line script src/worker.py
    proc,               \* a process started from the command line: its
                        \* --whisper-model argument and its exit status
    cleanup,            \* argument cleanup of run
    skip_transcription, \* argument skip_transcription of run
    pipeline,           \* the arguments the VideoPipeline of the run was constructed with
    result,             \* value returned by run: "none" until it returns
    raised,             \* TRUE when an exception left run
    local_dir,          \* local chunk directory exists
    output_dir,         \* output directory exists
    chunkFiles,         \* chunk files present under local_dir/{video,audio}
    outFiles,           \* artifacts present under output_dir
    tempDir,            \* the TemporaryDirectory of run exists
    tempFiles,          \* files inside the TemporaryDirectory
    model,              \* transcriber.model is loaded
    video_chunks,       \* locals of run
    audio_chunks,
    audio_concat_path,
    audio_wav_path,
    transcript_paths,
    srt_path,
    saved_audio_path,
    video_path,
    steps,              \* history: steps entered by the current run, in order
    outcome,            \* history: how each step of the current run ended
    listed,             \* history: objects the listing returned to the current run
    fetched,            \* history: chunks downloaded by the current run
    muxInputs,          \* history: inputs handed to the mux invocation
    muxFailure,         \* history: why the mux invocation failed
    uploads,            \* history: upload attempts of the current run, in order
    cleanupCount,       \* history: calls of cleanup_local_files in the current run
    removals,           \* history: directories rmtree was called on in the current run
    config,             \* module-level configuration of app/driver.py
    threads,            \* background threads started by submit_data
    responses,          \* responses returned by submit_data, in order
    handlers,           \* request threads of a threaded server inside submit_data
    call                \* a function of the pipeline called on its own: its
                        \* name, its arguments and what it returned

args    == << cleanup, skip_transcription, pipeline >>
fs      == << local_dir, output_dir, chunkFiles, outFiles >>
temp    == << tempDir, tempFiles >>
locals  == << video_chunks, audio_chunks, audio_concat_path, audio_wav_path,
              transcript_paths, srt_path, saved_audio_path, video_path >>
hist    == << listed, fetched, muxInputs, muxFailure, uploads, cleanupCount,
              removals >>
web     == << config, threads, responses, handlers >>

prog    == << entry, cli, proc, call >>

vars == << prog, pc, args, result, raised, fs, temp, model, locals, steps,
           outcome, hist, web >>

\* ------------------------------------------------------------- helpers
RECURSIVE SortedSeq(_)
SortedSeq(S) ==
    IF S = {} THEN << >>
    ELSE LET m == CHOOSE x \in S : \A y \in S : x <= y
         IN  <<m>> \o SortedSeq(S \ {m})

Range(s) == { s[i] : i \in 1..Len(s) }

\* the step is entered and ends with outcome o
Enter(step, o) ==
    /\ steps' = Append(steps, step)
    /\ outcome' = [outcome EXCEPT ![step] = o]

\* faulty variant of ExitTemp: a directory made with mkdtemp, which nothing removes
ExitTempLeaks == UNCHANGED << tempDir, tempFiles >>

\* leaving the with tempfile.TemporaryDirectory() block removes the directory
ExitTemp ==
    /\ tempDir' = FALSE
    /\ tempFiles' = {}

\* faulty variant of Return: the call the step waits for never returns
ReturnHangs(value) ==
    /\ UNCHANGED << result, raised >>
    /\ pc' = "blocked"

\* return <value> inside the try block: control passes to the finally block
Return(value) ==
    /\ result' = value
    /\ raised' = FALSE
    /\ pc' = "finally"

\* faulty variant of HandleException: the handler re-raises instead of returning False
HandleExceptionReraise ==
    /\ result' = "none"
    /\ raised' = TRUE
    /\ pc' = "finally"

\* except Exception: print, return False
HandleException ==
    /\ result' = "False"
    /\ raised' = FALSE
    /\ pc' = "finally"


\* ------------------------------------------------------------- artifacts
FinalVideo     == "final_video"
FinalAudio     == "final_audio"
TranscriptJson == "transcript_json"
TranscriptSrt  == "transcript_srt"
OutputFiles    == { FinalVideo, FinalAudio, TranscriptJson, TranscriptSrt }

VideoConcat == "video_concatenated.webm"
AudioConcat == "audio_concatenated.webm"
AudioWav    == "audio_for_transcription.wav"
TempFiles   == { VideoConcat, AudioConcat, AudioWav }

\* the command line script before it calls run
CliIdle ==
    [ pc |-> "idle", cleanup |-> TRUE, skip_transcription |-> FALSE,
      steps |-> << >>, raisedIn |-> None, result |-> "none", raised |-> FALSE,
      video_path |-> None, audio_path |-> None, transcript_path |-> None,
      cleanupCount |-> 0 ]

\* the module-level variables of app/driver.py before any request
InitialConfig ==
    [ MEETING_ID |-> NoId, TAKE_ |-> NoId, USER_ID |-> NoId,
      PREFIX |-> PREFIX, DIR |-> NoId,
      REMOTE_DIR |-> NoId, LOCAL_DIR |-> NoId, OUTPUT_DIR |-> NoId,
      UPLOAD_DIR |-> NoId ]

\* no VideoPipeline has been constructed
NoPipeline ==
    [ meeting_id |-> NoId, take |-> NoId, user_id |-> NoId, remote_dir |-> NoId,
      local_dir |-> NoId, output_dir |-> NoId, upload_dir |-> NoId ]

\* a process before main has read its arguments
NotStarted == [ whisper_model |-> None, exit |-> "none" ]

\* ------------------------------------------------------------- Init
NoOutcome == [ s \in Steps |-> "-" ]

\* no function is called on its own
NoCall == [ fn |-> None ]

\* the working directories of the job do not exist
NoWorkingDirectories ==
    /\ local_dir = FALSE
    /\ output_dir = FALSE
    /\ chunkFiles = {}
    /\ outFiles = {}

\* a process that has not called anything yet
InitProcess ==
    /\ cli = CliIdle
    /\ proc = NotStarted
    /\ pc = "idle"
    /\ cleanup = TRUE
    /\ skip_transcription = FALSE
    /\ pipeline = NoPipeline
    /\ result = "none"
    /\ raised = FALSE
    /\ tempDir = FALSE
    /\ tempFiles = {}
    /\ model = FALSE
    /\ video_chunks = << >>
    /\ audio_chunks = << >>
    /\ audio_concat_path = None
    /\ audio_wav_path = None
    /\ transcript_paths = NoPaths
    /\ srt_path = None
    /\ saved_audio_path = None
    /\ video_path = None
    /\ steps = << >>
    /\ outcome = NoOutcome
    /\ listed = NotListed
    /\ fetched = {}
    /\ muxInputs = {}
    /\ muxFailure = None
    /\ uploads = << >>
    /\ cleanupCount = 0
    /\ removals = {}
    /\ config = InitialConfig
    /\ threads = << >>
    /\ responses = << >>

\* nothing has run yet
InitState == InitProcess /\ NoWorkingDirectories

Init ==
    /\ entry \in {"service", "main", "direct", "cli"}
    /\ handlers = << >>
    /\ call = NoCall
    /\ InitState

\* ------------------------------------------------------- app/driver.py
\* set_config: the module-level configuration it assigns and returns (TAKE is
\* a reserved word of TLA+); '/'.join and + "/" + put separators between the
\* strings, which concatenates their sequences of components
SetConfig(meeting_id, take, user_id) ==
    LET DIR == meeting_id \o take \o user_id IN
    [ MEETING_ID |-> meeting_id,
      TAKE_      |-> take,
      USER_ID    |-> user_id,
      PREFIX     |-> PREFIX,
      DIR        |-> DIR,
      REMOTE_DIR |-> << PREFIX >> \o DIR,
      LOCAL_DIR  |-> << "..", "chunks" >> \o DIR,
      OUTPUT_DIR |-> << "..", "recordings" >> \o DIR,
      UPLOAD_DIR |-> << PREFIX >> \o meeting_id \o take ]

\* VideoPipeline.__init__: the fields of the pipeline, for a caller that
\* passes the values of the configuration
PipelineOf(cfg) ==
    [ meeting_id |-> cfg.MEETING_ID, take |-> cfg.TAKE_, user_id |-> cfg.USER_ID,
      remote_dir |-> cfg.REMOTE_DIR, local_dir |-> cfg.LOCAL_DIR,
      output_dir |-> cfg.OUTPUT_DIR, upload_dir |-> cfg.UPLOAD_DIR ]

\* the identifiers requests are made with: present or absent, one component
\* or several, with ".." among them
MeetingIds == { NoId, << "m1" >> }
Takes      == { NoId, << "t1" >>, << "t1", "u1" >> }
UserIds    == { << "u1" >>, << "u2" >> }

\* the job identities of the caller that constructs the pipeline itself
DirectJobs ==
    { << << "m1" >>, << "t1" >>, << "u1" >> >>,
      << << "m1" >>, << "..", ".." >>, << "u1" >> >> }

valid_models == { "tiny", "base", "small", "medium", "large" }

\* faulty variant of ValidModel: the model name is not validated
ValidModelAny(whisper_model) == TRUE

\* if whisper_model not in valid_models: reject
ValidModel(whisper_model) == whisper_model \in valid_models

\* the values of whisper_model in a request (None: the key is absent) and of
\* --whisper-model on the command line
Models   == { None, "base", "huge" }
ArgModels == { "base", "huge" }

\* the JSON bodies POSTed to /submit
Requests ==
    [ meeting_id : MeetingIds, take : Takes, user_id : UserIds,
      whisper_model : Models, cleanup : BOOLEAN, skip_transcription : BOOLEAN ]

\* data.get('whisper_model', 'base')
GetOr(value, default) == IF value = None THEN default ELSE value

\* VideoPipeline.__init__: the parameters without a default value
InitRequired ==
    { "meeting_id", "take", "user_id", "remote_dir", "local_dir", "output_dir",
      "upload_dir" }

\* the keyword arguments of the call VideoPipeline(whisper_model=whisper_model)
RunPipelineKwargs == { "whisper_model" }

\* calling VideoPipeline with these keyword arguments: a parameter without a
\* default that is not passed raises TypeError
VideoPipelineInit(kwargs) ==
    IF InitRequired \subseteq kwargs THEN "pipeline" ELSE "TypeError"

\* --------------------------------------------------- VideoPipeline.run
\* pipeline = VideoPipeline(...); pipeline.run(cleanup, skip_transcription)
\* A new pipeline object has a new WhisperTranscriber, whose model is None.
BeginRun(c, s, p) ==
    /\ pc = "idle"
    /\ cleanup' = c
    /\ skip_transcription' = s
    /\ pipeline' = p
    /\ pc' = "setup"
    /\ result' = "none"
    /\ raised' = FALSE
    /\ model' = FALSE
    /\ video_chunks' = << >>
    /\ audio_chunks' = << >>
    /\ audio_concat_path' = None
    /\ audio_wav_path' = None
    /\ transcript_paths' = NoPaths
    /\ srt_path' = None
    /\ saved_audio_path' = None
    /\ video_path' = None
    /\ steps' = << >>
    /\ outcome' = NoOutcome
    /\ listed' = NotListed
    /\ fetched' = {}
    /\ muxInputs' = {}
    /\ muxFailure' = None
    /\ uploads' = << >>
    /\ cleanupCount' = 0
    /\ removals' = {}
    /\ UNCHANGED << fs, temp >>

\* a caller that passes VideoPipeline all its arguments invokes run; the two
\* callers under src/app (run_pipeline of routes.py and main of worker.py) pass
\* whisper_model only, see VideoPipelineInit
StartRun ==
    /\ entry = "direct"
    /\ \E c \in BOOLEAN, s \in BOOLEAN : \E job \in DirectJobs :
        LET cfg == SetConfig(job[1], job[2], job[3]) IN
        /\ config' = cfg
        /\ BeginRun(c, s, PipelineOf(cfg))
    /\ UNCHANGED << prog, threads, responses, handlers >>

\* Step 1: self.setup_directories(); os.makedirs may raise
SetupDirectories ==
    /\ pc = "setup"
    /\ \E o \in {"ok", "raise"} :
        /\ Enter("DirectorySetup", o)
        /\ IF o = "ok"
           THEN /\ local_dir' = TRUE
                /\ output_dir' = TRUE
                /\ pc' = "preflight"
                /\ UNCHANGED << result, raised >>
           ELSE /\ local_dir' \in {local_dir, TRUE}
                /\ UNCHANGED output_dir
                /\ HandleException
    /\ UNCHANGED << prog, args, chunkFiles, outFiles, temp, model, locals, hist, web >>

\* faulty variant of PreflightGate: the result of check_ffmpeg is ignored
PreflightGateIgnored(found) == TRUE

\* if not self.check_ffmpeg(): return False
PreflightGate(found) == found

\* Step 2: check_ffmpeg catches CalledProcessError and FileNotFoundError only
CheckFfmpeg ==
    /\ pc = "preflight"
    /\ \E o \in {"ok", "fail", "raise"} :
        /\ Enter("ToolPreflight", o)
        /\ CASE o = "raise" -> HandleException
             [] o # "raise" /\ PreflightGate(o = "ok") ->
                    pc' = "fetch" /\ UNCHANGED << result, raised >>
             [] OTHER -> Return("False")
    /\ UNCHANGED << prog, args, fs, temp, model, locals, hist, web >>


\* faulty variant of DownloadChunks: a download that raises is skipped and the
\* loop goes on with the next object
DownloadChunksSkipsFailed(listing, failAt) ==
    IF failAt = 0 THEN [ ret |-> FALSE, files |-> {} ]
    ELSE IF Len(listing) = 0 THEN [ ret |-> FALSE, files |-> {} ]
    ELSE IF failAt <= Len(listing)
         THEN [ ret |-> TRUE, files |-> Range(listing) \ { listing[failAt] } ]
         ELSE [ ret |-> TRUE, files |-> Range(listing) ]

\* faulty variant of DownloadChunks: an empty listing is not reported as a failure
DownloadChunksEmptyOk(listing, failAt) ==
    IF failAt = 0 THEN [ ret |-> FALSE, files |-> {} ]
    ELSE IF failAt <= Len(listing)
         THEN [ ret |-> FALSE, files |-> { listing[i] : i \in 1..(failAt - 1) } ]
         ELSE [ ret |-> TRUE, files |-> Range(listing) ]

\* download_chunks: the value it returns and the files it writes, for the
\* listing the store answers with and the call that raises (0: list_objects_v2
\* raises, k in 1..Len: the k-th download_file raises, Len+1: no call raises)
DownloadChunks(listing, failAt) ==
    IF failAt = 0 THEN [ ret |-> FALSE, files |-> {} ]
    ELSE IF Len(listing) = 0 THEN [ ret |-> FALSE, files |-> {} ]
    ELSE IF failAt <= Len(listing)
         THEN [ ret |-> FALSE, files |-> { listing[i] : i \in 1..(failAt - 1) } ]
         ELSE [ ret |-> TRUE, files |-> Range(listing) ]

\* faulty variant of FetchGate: the result of download_chunks is ignored
FetchGateIgnored(downloaded) == TRUE

\* if not self.r2_manager.download_chunks(): return False
FetchGate(downloaded) == downloaded

\* Step 3: download the chunks listed under remote_dir
Fetch ==
    /\ pc = "fetch"
    /\ \E S \in SUBSET Chunks : \E failAt \in 0..(Cardinality(S) + 1) :
        LET d == DownloadChunks(ListingOf(S), failAt) IN
        /\ Enter("Fetch", IF d.ret THEN "ok" ELSE "fail")
        /\ listed' = IF failAt = 0 THEN NotListed ELSE << S >>
        /\ fetched' = d.files
        /\ chunkFiles' = chunkFiles \cup d.files
        /\ IF FetchGate(d.ret)
           THEN pc' = "locate" /\ UNCHANGED << result, raised >>
           ELSE Return("False")
    /\ UNCHANGED << prog, args, local_dir, output_dir, outFiles, temp, model,
                    locals, muxInputs, muxFailure, uploads, cleanupCount,
                    removals, web >>

\* for i in range(1000): the upper bound of the chunk scan
ScanBound == 1000

\* for i in range(lo, hi): if <track>_<i>.webm exists: chunks.append(i).
\* The iterations of the loop are evaluated in two halves, the first half
\* before the second, which keeps the evaluation shallow; the middle is bound
\* as the element of a singleton, so that it is computed once.
RECURSIVE ScanChunks(_, _, _, _)
ScanChunks(files, track, lo, hi) ==
    IF hi <= lo THEN << >>
    ELSE IF hi = lo + 1
    THEN (IF [ track |-> track, index |-> lo ] \in files THEN << lo >> ELSE << >>)
    ELSE CHOOSE found \in
            { ScanChunks(files, track, lo, mid) \o ScanChunks(files, track, mid, hi) :
                 mid \in { (lo + hi) \div 2 } } : TRUE

\* list.sort(key=lambda x: x[0]) places an element: after the elements that
\* are not greater (the sort is stable)
RECURSIVE InsertByIndex(_, _)
InsertByIndex(x, s) ==
    IF s = << >> THEN << x >>
    ELSE IF x < Head(s) THEN << x >> \o s
    ELSE << Head(s) >> \o InsertByIndex(x, Tail(s))

\* chunks.sort(key=lambda x: x[0])
RECURSIVE SortByIndex(_)
SortByIndex(s) ==
    IF s = << >> THEN << >>
    ELSE InsertByIndex(s[Len(s)], SortByIndex(SubSeq(s, 1, Len(s) - 1)))

\* faulty variant of FindChunkSequences: the scan goes one index too far
FindChunkSequencesOneMore(files, track) ==
    SortByIndex(ScanChunks(files, track, 0, ScanBound + 1))

\* find_chunk_sequences, for one track: the indices found by the scan, sorted
\* (the list the scan returns is bound as the element of a singleton, so that
\* the scan is made once)
FindChunkSequences(files, track) ==
    CHOOSE chunks \in { SortByIndex(found) :
                           found \in { ScanChunks(files, track, 0, ScanBound) } } : TRUE

\* if not video_chunks: return False
VideoLocatedGate(chunks) == chunks # << >>

\* Step 4: VideoProcessor(...) creates the output directories (mkdir may raise),
\* find_chunk_sequences scans the chunk directories, and the with block
\* creates the temporary directory
Locate ==
    /\ pc = "locate"
    /\ \E o \in {"ok", "raise"} :
        LET v == FindChunkSequences(chunkFiles, "video")
            a == FindChunkSequences(chunkFiles, "audio")
        IN
        CASE o = "raise" ->
                /\ Enter("Locate", "raise")
                /\ HandleException
                /\ UNCHANGED << video_chunks, audio_chunks, temp >>
          [] o = "ok" /\ VideoLocatedGate(v) ->
                /\ Enter("Locate", "ok")
                /\ video_chunks' = v
                /\ audio_chunks' = a
                /\ tempDir' = TRUE
                /\ tempFiles' = {}
                /\ pc' = "asm_video"
                /\ UNCHANGED << result, raised >>
          [] OTHER ->
                /\ Enter("Locate", "fail")
                /\ video_chunks' = v
                /\ audio_chunks' = a
                /\ Return("False")
                /\ UNCHANGED temp
    /\ UNCHANGED << prog, args, fs, model, audio_concat_path, audio_wav_path,
                    transcript_paths, srt_path, saved_audio_path, video_path,
                    hist, web >>

\* what can happen inside concatenate_raw_chunks; every exception is caught there
ConcatOutcomes == {"ok", "read_error", "ffmpeg_failed", "ffmpeg_missing"}

\* concatenate_raw_chunks: the value returned
ConcatenateRawChunks(chunks, o) ==
    IF chunks = << >> THEN FALSE ELSE o = "ok"

\* the bytes of a chunk file: two bytes that no other chunk file holds
ChunkBytes(track, index) ==
    << [ track |-> track, index |-> index, byte |-> 1 ],
       [ track |-> track, index |-> index, byte |-> 2 ] >>

\* faulty variant of RawSplice: the chunks are written last to first
RECURSIVE RawSpliceReversed(_, _)
RawSpliceReversed(track, chunks) ==
    IF chunks = << >> THEN << >>
    ELSE RawSpliceReversed(track, Tail(chunks)) \o ChunkBytes(track, Head(chunks))

\* for (index, chunk_path) in chunks: outfile.write(infile.read())
RECURSIVE RawSplice(_, _)
RawSplice(track, chunks) ==
    IF chunks = << >> THEN << >>
    ELSE ChunkBytes(track, Head(chunks)) \o RawSplice(track, Tail(chunks))

\* the scratch file of concatenate_raw_chunks: output_path.with_suffix('.temp.webm')
VideoScratch == "video_concatenated.temp.webm"
AudioScratch == "audio_concatenated.temp.webm"

\* faulty variant of ConcatFiles: the except handler does not unlink the scratch file
ConcatFilesHandlerKeepsScratch(files, chunks, output, scratch, o) ==
    IF chunks = << >>
    THEN files
    ELSE LET opened == files \cup { scratch }
             remuxed == IF o = "ok" THEN opened \cup { output } ELSE opened
         IN  IF o \in { "read_error", "ffmpeg_missing" }
             THEN remuxed
             ELSE remuxed \ { scratch }

\* concatenate_raw_chunks: the files of the directory of output_path after the
\* call. With no chunks it returns at once; otherwise it opens the scratch
\* file for writing, ffmpeg writes the output when it succeeds, and the
\* scratch file is unlinked on the normal path and in the except handler
ConcatFiles(files, chunks, output, scratch, o) ==
    IF chunks = << >>
    THEN files
    ELSE LET opened == files \cup { scratch }
             remuxed == IF o = "ok" THEN opened \cup { output } ELSE opened
         IN  remuxed \ { scratch }

\* how an assembly step ended: "ok", or what made it return False
ConcatResult(ok, o) == IF ok THEN "ok" ELSE IF o = "ok" THEN "no_chunks" ELSE o

\* faulty variant of VideoGate: a failed video assembly does not end the run
VideoGateIgnored(assembled) == TRUE

\* if not processor.concatenate_raw_chunks(video_chunks, ...): return False
VideoGate(assembled) == assembled

\* Assemble(video)
AssembleVideo ==
    /\ pc = "asm_video"
    /\ \E o \in ConcatOutcomes :
        LET ok == ConcatenateRawChunks(video_chunks, o) IN
        /\ Enter("AssembleVideo", ConcatResult(ok, o))
        /\ IF VideoGate(ok)
           THEN /\ tempFiles' = ConcatFiles(tempFiles, video_chunks, VideoConcat,
                                            VideoScratch, o)
                /\ UNCHANGED << tempDir, result, raised >>
                /\ pc' = "asm_audio"
           ELSE /\ ExitTemp
                /\ Return("False")
    /\ UNCHANGED << prog, args, fs, model, locals, hist, web >>

\* faulty variant of AudioConcatPath: the path is not reset when the assembly fails
AudioConcatPathKept(assembled) == AudioConcat

\* audio_concat_path after the audio concatenation: reset to None on failure
AudioConcatPath(assembled) == IF assembled THEN AudioConcat ELSE None

\* faulty variant of AudioLocatedGate: the audio assembly is attempted without chunks
AudioLocatedGateIgnored(chunks) == TRUE

\* if audio_chunks: concatenate them
AudioLocatedGate(chunks) == chunks # << >>

\* Assemble(audio): only when audio chunks were located; never fatal
AssembleAudio ==
    /\ pc = "asm_audio"
    /\ IF AudioLocatedGate(audio_chunks)
       THEN \E o \in ConcatOutcomes :
            LET ok == ConcatenateRawChunks(audio_chunks, o) IN
            /\ Enter("AssembleAudio", ConcatResult(ok, o))
            /\ audio_concat_path' = AudioConcatPath(ok)
            /\ tempFiles' = ConcatFiles(tempFiles, audio_chunks, AudioConcat,
                                        AudioScratch, o)
       ELSE UNCHANGED << steps, outcome, audio_concat_path, tempFiles >>
    /\ pc' = "extract"
    /\ UNCHANGED << prog, args, result, raised, fs, tempDir, model, video_chunks,
                    audio_chunks, audio_wav_path, transcript_paths, srt_path,
                    saved_audio_path, video_path, hist, web >>


\* run_ffmpeg catches CalledProcessError only: the tool exits non-zero ("fail")
\* or subprocess.run raises something else, which run_ffmpeg lets through
FfmpegOutcomes == {"ok", "fail", "raise"}

\* faulty variant of AudioWavPath: the path is not reset when the conversion fails
AudioWavPathKept(success) == AudioWav

\* audio_wav_path after the conversion to WAV: reset to None on failure
AudioWavPath(success) == IF success THEN AudioWav ELSE None

\* if audio_concat_path and not skip_transcription: convert to WAV; an ffmpeg
\* that exits non-zero may leave a partial output file behind
ExtractAudioForTranscription ==
    /\ pc = "extract"
    /\ IF audio_concat_path # None /\ ~skip_transcription
       THEN \E o \in FfmpegOutcomes :
            /\ Enter("ExtractAudioForTranscription", o)
            /\ CASE o = "ok" ->
                      /\ audio_wav_path' = AudioWavPath(TRUE)
                      /\ tempFiles' = tempFiles \cup {AudioWav}
                      /\ pc' = "transcribe"
                      /\ UNCHANGED << tempDir, result, raised >>
                 [] o = "fail" ->
                      /\ audio_wav_path' = AudioWavPath(FALSE)
                      /\ tempFiles' \in { tempFiles, tempFiles \cup {AudioWav} }
                      /\ pc' = "transcribe"
                      /\ UNCHANGED << tempDir, result, raised >>
                 [] OTHER ->
                      /\ audio_wav_path' = AudioWav
                      /\ ExitTemp
                      /\ HandleException
       ELSE /\ pc' = "transcribe"
            /\ UNCHANGED << steps, outcome, audio_wav_path, temp, result, raised >>
    /\ UNCHANGED << prog, args, fs, model, video_chunks, audio_chunks,
                    audio_concat_path, transcript_paths, srt_path,
                    saved_audio_path, video_path, hist, web >>

\* what can happen inside WhisperTranscriber.transcribe_audio; load_model and
\* the body both catch Exception, so it returns paths or None
TranscribeOutcomes == {"ok", "load_failed", "transcribe_failed", "write_failed"}

\* faulty variant of TranscribeAudio: the paths are returned after a failure too
TranscribeAudioPathsAlways(o) == << TranscriptJson, TranscriptSrt >>

\* WhisperTranscriber.transcribe_audio: (json_path, srt_path) or None
TranscribeAudio(o) ==
    IF o = "ok" THEN << TranscriptJson, TranscriptSrt >> ELSE NoPaths

\* faulty variant of TranscribeFiles: the transcripts are written into the
\* temporary directory, which is gone when the upload starts
TranscribeFilesInTemp(o) == {}

\* files transcribe_audio leaves under output_dir/transcripts; write_failed:
\* the JSON was written and writing the SRT raised
TranscribeFiles(o) ==
    CASE o = "ok" -> { TranscriptJson, TranscriptSrt }
      [] o = "write_failed" -> { TranscriptJson }
      [] OTHER -> {}

\* faulty variant of TranscribeGate: the transcription is attempted unconditionally
TranscribeGateAlways(skip, wav, files) == TRUE

\* if not skip_transcription and audio_wav_path and audio_wav_path.exists()
TranscribeGate(skip, wav, files) == ~skip /\ wav # None /\ wav \in files

\* Step 5: transcription, when not skipped and the WAV exists
Transcribe ==
    /\ pc = "transcribe"
    /\ IF TranscribeGate(skip_transcription, audio_wav_path, tempFiles)
       THEN \E o \in TranscribeOutcomes :
            LET paths == TranscribeAudio(o) IN
            /\ Enter("Transcribe", o)
            /\ model' = (model \/ o # "load_failed")
            /\ transcript_paths' = paths
            /\ srt_path' = IF paths # NoPaths /\ Len(paths) > 1 THEN paths[2] ELSE None
            /\ outFiles' = outFiles \cup TranscribeFiles(o)
       ELSE UNCHANGED << steps, outcome, model, transcript_paths, srt_path, outFiles >>
    /\ pc' = "save_audio"
    /\ UNCHANGED << prog, args, result, raised, local_dir, output_dir, chunkFiles,
                    temp, video_chunks, audio_chunks, audio_concat_path,
                    audio_wav_path, saved_audio_path, video_path, hist, web >>

\* faulty variant of SaveAudioGate: the audio is saved only in a run that transcribes
SaveAudioGateUnlessSkipped ==
    audio_concat_path # None /\ audio_concat_path \in tempFiles /\ ~skip_transcription

\* if audio_concat_path and audio_concat_path.exists()
SaveAudioGate == audio_concat_path # None /\ audio_concat_path \in tempFiles

\* Step 6, first half: save the assembled audio as the final WAV
SaveAudio ==
    /\ pc = "save_audio"
    /\ IF SaveAudioGate
       THEN \E o \in FfmpegOutcomes :
            /\ Enter("SaveAudio", o)
            /\ CASE o = "ok" ->
                      /\ saved_audio_path' = FinalAudio
                      /\ outFiles' = outFiles \cup {FinalAudio}
                      /\ pc' = "mux"
                      /\ UNCHANGED << temp, result, raised >>
                 [] o = "fail" ->
                      /\ pc' = "mux"
                      /\ UNCHANGED << saved_audio_path, outFiles, temp, result, raised >>
                 [] OTHER ->
                      /\ ExitTemp
                      /\ HandleException
                      /\ UNCHANGED << saved_audio_path, outFiles >>
       ELSE /\ pc' = "mux"
            /\ UNCHANGED << steps, outcome, saved_audio_path, outFiles, temp,
                            result, raised >>
    /\ UNCHANGED << prog, args, local_dir, output_dir, chunkFiles, model,
                    video_chunks, audio_chunks, audio_concat_path, audio_wav_path,
                    transcript_paths, srt_path, video_path, hist, web >>

\* mux_video_audio_with_captions: the inputs of its single ffmpeg invocation
MuxCommandInputs(video, audio, srt, files) ==
    {video}
      \cup (IF audio # None THEN {audio} ELSE {})
      \cup (IF srt # None /\ srt \in files THEN {srt} ELSE {})

\* if processor.mux_video_audio_with_captions(...): ... else: return False
MuxGate(muxed) == muxed

\* Step 6, second half: one ffmpeg invocation creates the final MP4; when it
\* exits non-zero, bad is the input it failed on
Mux ==
    /\ pc = "mux"
    /\ LET inputs == MuxCommandInputs(VideoConcat, audio_concat_path, srt_path, outFiles) IN
       \E o \in FfmpegOutcomes : \E bad \in inputs :
        /\ Enter("Mux", o)
        /\ muxInputs' = inputs
        /\ muxFailure' = IF o = "fail" THEN bad ELSE None
        /\ ExitTemp
        /\ CASE o = "raise" ->
                  /\ HandleException
                  /\ UNCHANGED << video_path, outFiles >>
             [] o # "raise" /\ MuxGate(o = "ok") ->
                  /\ video_path' = IF o = "ok" THEN FinalVideo ELSE None
                  /\ outFiles' = IF o = "ok" THEN outFiles \cup {FinalVideo} ELSE outFiles
                  /\ pc' = "publish"
                  /\ UNCHANGED << result, raised >>
             [] OTHER ->
                  /\ Return("False")
                  /\ UNCHANGED << video_path, outFiles >>
    /\ UNCHANGED << prog, args, local_dir, output_dir, chunkFiles, model,
                    video_chunks, audio_chunks, audio_concat_path, audio_wav_path,
                    transcript_paths, srt_path, saved_audio_path, listed, fetched,
                    uploads, cleanupCount, removals, web >>

Artifacts == { FinalVideo, FinalAudio, TranscriptSrt }

\* a component of an object key: a string with a prefix and a suffix around it
Part(pre, str, suf) == [ pre |-> pre, str |-> str, suf |-> suf ]

\* the components of a path, as components of a key
Plain(path) == [ i \in 1..Len(path) |-> Part("", path[i], "") ]

\* f"{upload_dir}/{stem}{user_id}{ext}": the separators inside user_id split
\* the file name into components
RemoteKey(upload_dir, stem, user_id, ext) ==
    Plain(upload_dir)
      \o [ i \in 1..Len(user_id) |->
              Part(IF i = 1 THEN stem ELSE "", user_id[i],
                   IF i = Len(user_id) THEN ext ELSE "") ]

\* faulty variant of UploadDir: the manager uploads under the directory of the chunks
UploadDirIsRemoteDir(p) == p.remote_dir

\* CloudflareR2Manager(remote_dir, local_dir, upload_dir, user_id): self.upload_dir
UploadDir(p) == p.upload_dir

\* faulty variant of RemoteKeyOf: the audio is uploaded under the key of the video
RemoteKeyOfVideoForAudio(p, artifact) ==
    CASE artifact = FinalVideo    -> RemoteKey(UploadDir(p), "final_video_", p.user_id, ".mp4")
      [] artifact = FinalAudio    -> RemoteKey(UploadDir(p), "final_video_", p.user_id, ".mp4")
      [] artifact = TranscriptSrt -> RemoteKey(UploadDir(p), "subtitle_", p.user_id, ".srt")

\* upload_processed_files: the key an artifact is uploaded under
RemoteKeyOf(p, artifact) ==
    CASE artifact = FinalVideo    -> RemoteKey(UploadDir(p), "final_video_", p.user_id, ".mp4")
      [] artifact = FinalAudio    -> RemoteKey(UploadDir(p), "final_audio_", p.user_id, ".wav")
      [] artifact = TranscriptSrt -> RemoteKey(UploadDir(p), "subtitle_", p.user_id, ".srt")

\* upload_processed_files: the artifacts it uploads, in the order it tries them
UploadCandidates(vp, ap, tp, files) ==
    (IF vp # None /\ vp \in files THEN << vp >> ELSE << >>)
      \o (IF ap # None /\ ap \in files THEN << ap >> ELSE << >>)
      \o (IF tp # NoPaths /\ tp[2] \in files THEN << tp[2] >> ELSE << >>)

\* faulty variant of UploadProcessedFiles: upload_success is assigned the
\* result of each upload, so that the last upload decides
UploadProcessedFilesLastDecides(vp, ap, tp, files, stored) ==
    LET c == UploadCandidates(vp, ap, tp, files)
        attempts == [ i \in 1..Len(c) |-> [ artifact |-> c[i], ok |-> stored[c[i]] ] ]
    IN  [ attempts |-> attempts,
          upload_success |-> (Len(c) = 0 \/ attempts[Len(c)].ok) ]

\* faulty variant of UploadProcessedFiles: the first failed upload ends the uploads
UploadProcessedFilesStopAtFailure(vp, ap, tp, files, stored) ==
    LET c == UploadCandidates(vp, ap, tp, files)
        tried == { i \in 1..Len(c) : \A j \in 1..(i - 1) : stored[c[j]] }
        attempts == [ i \in 1..Cardinality(tried) |->
                        [ artifact |-> c[i], ok |-> stored[c[i]] ] ]
    IN  [ attempts |-> attempts,
          upload_success |-> \A i \in 1..Len(attempts) : attempts[i].ok ]

\* upload_processed_files: every candidate is tried, stored[a] tells whether
\* upload_file(a) succeeds; upload_success is cleared by any failure
UploadProcessedFiles(vp, ap, tp, files, stored) ==
    LET c == UploadCandidates(vp, ap, tp, files)
        attempts == [ i \in 1..Len(c) |-> [ artifact |-> c[i], ok |-> stored[c[i]] ] ]
    IN  [ attempts |-> attempts,
          upload_success |-> \A i \in 1..Len(c) : attempts[i].ok ]

\* if not self.r2_manager.upload_processed_files(...): return False
UploadGate(uploaded) == uploaded

\* Step 7: upload the processed files
Publish ==
    /\ pc = "publish"
    /\ \E stored \in [ Artifacts -> BOOLEAN ] :
        LET u == UploadProcessedFiles(video_path, saved_audio_path, transcript_paths,
                                      outFiles, stored) IN
        /\ Enter("Publish", IF u.upload_success THEN "ok" ELSE "fail")
        /\ uploads' = u.attempts
        /\ IF UploadGate(u.upload_success) THEN Return("True") ELSE Return("False")
    /\ UNCHANGED << prog, args, fs, temp, model, locals, listed, fetched, muxInputs,
                    muxFailure, cleanupCount, removals, web >>

\* faulty variant of CleanupGuard: cleanup only at the end of a successful run
CleanupGuardOnSuccess == cleanup /\ result = "True"

\* finally: if cleanup: self.cleanup_local_files()
CleanupGuard == cleanup

\* cleanup_local_files: rmtree(local_dir), then rmtree(output_dir), inside one
\* try; an exception is printed and ends the function
CleanupOutcomes ==
    {"ok"} \cup (IF local_dir THEN {"raise_local"} ELSE {})
           \cup (IF output_dir THEN {"raise_output"} ELSE {})

\* cleanup_local_files: the directories shutil.rmtree is called on. Each is
\* removed when it exists; an rmtree that raises ends the try block.
Rmtrees(o) ==
    (IF local_dir THEN { "local_dir" } ELSE {})
      \cup (IF output_dir /\ o # "raise_local" THEN { "output_dir" } ELSE {})

\* faulty variant of CleanupEscapes: cleanup_local_files without its try
CleanupEscapesUncaught(o) == o # "ok"

\* cleanup_local_files: except Exception as e: print a warning; nothing that
\* rmtree raises leaves the function
CleanupEscapes(o) == FALSE

\* the finally block of run; run then returns to its caller, which in a
\* background thread prints the outcome and ends. An exception leaving the
\* finally block would replace the value run was about to return.
Finally ==
    /\ pc = "finally"
    /\ IF CleanupGuard
       THEN \E o \in CleanupOutcomes :
            /\ Enter("Cleanup", IF o = "ok" THEN "ok" ELSE "fail")
            /\ cleanupCount' = cleanupCount + 1
            /\ removals' = Rmtrees(o)
            /\ local_dir' = IF o = "raise_local" THEN local_dir ELSE FALSE
            /\ chunkFiles' = IF o = "raise_local" THEN chunkFiles ELSE {}
            /\ output_dir' = IF o = "ok" THEN FALSE ELSE output_dir
            /\ outFiles' = IF o = "ok" THEN {} ELSE outFiles
            /\ IF CleanupEscapes(o)
               THEN result' = "none" /\ raised' = TRUE
               ELSE UNCHANGED << result, raised >>
       ELSE UNCHANGED << steps, outcome, cleanupCount, removals, fs, result, raised >>
    /\ pc' = "done"
    /\ threads' = [ i \in DOMAIN threads |->
                       IF threads[i].state = "running"
                       THEN [ threads[i] EXCEPT
                                !.state = "finished",
                                !.outcome = IF result' = "True" THEN "success" ELSE "failed" ]
                       ELSE threads[i] ]
    /\ proc' = IF entry = "main"
               THEN [ proc EXCEPT !.exit = IF result' = "True" THEN "0" ELSE "1" ]
               ELSE proc
    /\ UNCHANGED << entry, call, cli, args, temp, model, locals, listed,
                    fetched, muxInputs, muxFailure, uploads, config, responses,
                    handlers >>

\* ------------------------------------------------------- app/routes.py
\* the body of a response of submit_data: the status code, the error, the
\* model name it reports and the configuration it returns (None: not in the body)
Response(code, error, whisper_model, cfg) ==
    [ code |-> code, error |-> error, whisper_model |-> whisper_model, config |-> cfg ]

\* faulty variant of PipelineThread: the handler joins the thread it started,
\* so the thread has ended by the time the response is built
PipelineThreadJoined(data, whisper_model) ==
    [ job |-> << data.meeting_id, data.take, data.user_id >>,
      whisper_model |-> whisper_model,
      cleanup |-> data.cleanup,
      skip_transcription |-> data.skip_transcription,
      state |-> "finished",
      outcome |-> "exception" ]

\* the thread submit_data starts for an accepted request: thread.start() and
\* no join, the handler goes on to build its response
PipelineThread(data, whisper_model) ==
    [ job |-> << data.meeting_id, data.take, data.user_id >>,
      whisper_model |-> whisper_model,
      cleanup |-> data.cleanup,
      skip_transcription |-> data.skip_transcription,
      state |-> "started",
      outcome |-> None ]

\* if not (MEETING_ID and TAKE and USER_ID): reject
IdsPresent(data) ==
    data.meeting_id # NoId /\ data.take # NoId /\ data.user_id # NoId

\* submit_data: one POST to /submit, on a server that handles one request at
\* a time
Submit ==
    /\ entry = "service"
    /\ Len(responses) < MaxSubmits
    /\ \E data \in Requests :
        LET whisper_model == GetOr(data.whisper_model, "base")
            cfg == SetConfig(data.meeting_id, data.take, data.user_id)
        IN
        CASE ~IdsPresent(data) ->
                /\ responses' = Append(responses, Response(400, "missing", None, None))
                /\ UNCHANGED << config, threads >>
          [] IdsPresent(data) /\ ~ValidModel(whisper_model) ->
                /\ config' = cfg
                /\ responses' = Append(responses, Response(400, "model", whisper_model, None))
                /\ UNCHANGED threads
          [] OTHER ->
                /\ config' = cfg
                /\ threads' = Append(threads, PipelineThread(data, whisper_model))
                /\ responses' = Append(responses, Response(200, None, whisper_model, cfg))
    /\ UNCHANGED << prog, pc, args, result, raised, fs, temp, model, locals, steps,
                    outcome, hist, handlers >>

\* run_pipeline: the body of the background thread
RunPipeline ==
    /\ \E i \in DOMAIN threads :
        /\ threads[i].state = "started"
        /\ IF VideoPipelineInit(RunPipelineKwargs) = "TypeError"
           THEN /\ threads' = [threads EXCEPT ![i].state = "finished",
                                              ![i].outcome = "exception"]
                /\ UNCHANGED << pc, args, result, raised, fs, temp, model,
                                locals, steps, outcome, hist >>
           ELSE /\ threads' = [threads EXCEPT ![i].state = "running"]
                /\ BeginRun(threads[i].cleanup, threads[i].skip_transcription,
                            PipelineOf(SetConfig(threads[i].job[1], threads[i].job[2],
                                                 threads[i].job[3])))
    /\ UNCHANGED << prog, config, responses, handlers >>

\* ------------------------------------------- submit_data on a threaded server
\* Each request is handled by its own thread; the threads share the module-level
\* variables of app/driver.py, and the interpreter may switch threads between
\* any two statements of set_config.
Handlers == { 1, 2 }

\* requests made to the threaded server: every identifier is present, the
\* options are left to their defaults
ThreadedRequests ==
    [ meeting_id : { << "m1" >>, << "m2" >> }, take : { << "t1" >> },
      user_id : { << "u1" >>, << "u2" >> },
      whisper_model : { None }, cleanup : { TRUE }, skip_transcription : { FALSE } ]

\* a request thread before its request has arrived
IdleHandler ==
    [ pc |-> "idle",
      data |-> [ meeting_id |-> NoId, take |-> NoId, user_id |-> NoId,
                 whisper_model |-> None, cleanup |-> TRUE, skip_transcription |-> FALSE ],
      ret |-> InitialConfig ]

\* the variables a statement of submit_data or set_config leaves alone
pipelinevars == << prog, pc, args, result, raised, fs, temp, model, locals, steps,
                  outcome, hist >>

\* data = request.get_json(); the identifiers are read and found present, and
\* set_config is called
HandleRequest ==
    /\ \E h \in DOMAIN handlers : \E data \in ThreadedRequests :
        /\ handlers[h].pc = "idle"
        /\ IdsPresent(data)
        /\ handlers' = [ handlers EXCEPT ![h].pc = "MEETING_ID", ![h].data = data ]
    /\ UNCHANGED << pipelinevars, config, threads, responses >>

\* one assignment to a module-level variable inside set_config
SetGlobal(h, at, value, next) ==
    /\ handlers[h].pc = at
    /\ config' = [ config EXCEPT ![at] = value ]
    /\ handlers' = [ handlers EXCEPT ![h].pc = next ]
    /\ UNCHANGED << pipelinevars, threads, responses >>

\* MEETING_ID = meeting_id
SetMeetingId ==
    \E h \in DOMAIN handlers :
        SetGlobal(h, "MEETING_ID", handlers[h].data.meeting_id, "TAKE_")

\* TAKE = take
SetTake ==
    \E h \in DOMAIN handlers :
        SetGlobal(h, "TAKE_", handlers[h].data.take, "USER_ID")

\* USER_ID = user_id
SetUserId ==
    \E h \in DOMAIN handlers :
        SetGlobal(h, "USER_ID", handlers[h].data.user_id, "DIR")

\* PREFIX = "recordings"; DIR = '/'.join([MEETING_ID, TAKE, USER_ID])
SetDir ==
    \E h \in DOMAIN handlers :
        SetGlobal(h, "DIR", config.MEETING_ID \o config.TAKE_ \o config.USER_ID,
                  "REMOTE_DIR")

\* REMOTE_DIR = PREFIX + "/" + DIR
SetRemoteDir ==
    \E h \in DOMAIN handlers :
        SetGlobal(h, "REMOTE_DIR", << config.PREFIX >> \o config.DIR, "LOCAL_DIR")

\* LOCAL_DIR = "../chunks/" + DIR
SetLocalDir ==
    \E h \in DOMAIN handlers :
        SetGlobal(h, "LOCAL_DIR", << "..", "chunks" >> \o config.DIR, "OUTPUT_DIR")

\* OUTPUT_DIR = "../recordings/" + DIR
SetOutputDir ==
    \E h \in DOMAIN handlers :
        SetGlobal(h, "OUTPUT_DIR", << "..", "recordings" >> \o config.DIR, "UPLOAD_DIR")

\* UPLOAD_DIR = PREFIX + "/" + '/'.join([MEETING_ID, TAKE])
SetUploadDir ==
    \E h \in DOMAIN handlers :
        SetGlobal(h, "UPLOAD_DIR",
                  << config.PREFIX >> \o config.MEETING_ID \o config.TAKE_, "return")

\* return { "MEETING_ID": MEETING_ID, ... }: the dictionary is built from the
\* module-level variables
SetConfigReturn ==
    /\ \E h \in DOMAIN handlers :
        /\ handlers[h].pc = "return"
        /\ handlers' = [ handlers EXCEPT ![h].pc = "respond", ![h].ret = config ]
    /\ UNCHANGED << pipelinevars, config, threads, responses >>

\* the rest of submit_data: the model name is validated, the thread is
\* started and the response carries the configuration set_config returned
Respond ==
    /\ \E h \in DOMAIN handlers :
        LET data == handlers[h].data
            whisper_model == GetOr(data.whisper_model, "base")
        IN
        /\ handlers[h].pc = "respond"
        /\ handlers' = [ handlers EXCEPT ![h].pc = "done" ]
        /\ IF ValidModel(whisper_model)
           THEN /\ threads' = Append(threads, PipelineThread(data, whisper_model))
                /\ responses' = Append(responses,
                                       Response(200, None, whisper_model, handlers[h].ret))
           ELSE /\ responses' = Append(responses, Response(400, "model", whisper_model, None))
                /\ UNCHANGED threads
    /\ UNCHANGED << pipelinevars, config >>

InitThreaded ==
    /\ entry = "threaded"
    /\ handlers = [ h \in Handlers |-> IdleHandler ]
    /\ call = NoCall
    /\ InitState

NextThreaded ==
    \/ HandleRequest
    \/ SetMeetingId
    \/ SetTake
    \/ SetUserId
    \/ SetDir
    \/ SetRemoteDir
    \/ SetLocalDir
    \/ SetOutputDir
    \/ SetUploadDir
    \/ SetConfigReturn
    \/ Respond
    \/ RunPipeline

SpecThreaded == InitThreaded /\ [][NextThreaded]_vars

\* ------------------------------------------------- app/worker.py, main
\* main: the arguments are parsed, the model name is validated, the pipeline
\* is constructed and run, and the process exits with 0 or 1; an exception
\* that leaves main ends the process with status 1
AppMain ==
    /\ entry = "main"
    /\ proc.exit = "none"
    /\ pc = "idle"
    /\ \E c \in BOOLEAN, s \in BOOLEAN : \E whisper_model \in ArgModels :
        CASE ~ValidModel(whisper_model) ->
                /\ proc' = [ whisper_model |-> whisper_model, exit |-> "1" ]
                /\ UNCHANGED << pc, args, result, raised, model, locals, steps,
                                outcome, hist >>
          [] ValidModel(whisper_model)
               /\ VideoPipelineInit(RunPipelineKwargs) = "TypeError" ->
                /\ proc' = [ whisper_model |-> whisper_model, exit |-> "1" ]
                /\ UNCHANGED << pc, args, result, raised, model, locals, steps,
                                outcome, hist >>
          [] OTHER ->
                /\ proc' = [ whisper_model |-> whisper_model, exit |-> "none" ]
                /\ BeginRun(c, s, PipelineOf(config))
    /\ UNCHANGED << entry, call, cli, fs, temp, web >>

\* ------------------------------------------ src/worker.py, VideoPipeline.run
\* The command line script runs the same pipeline on a module-level
\* configuration; process_chunks does the assembly, the saving of the audio and
\* the mux in one call, before the transcription.
appvars == << pc, args, result, raised, fs, temp, model, locals, steps, outcome,
              hist, web >>

CliEnter(step) == Append(cli.steps, step)

\* return <value> inside the try block of run
CliReturn(step, value) ==
    cli' = [ cli EXCEPT !.steps = CliEnter(step), !.result = value, !.pc = "finally" ]

\* except Exception: print, return False
CliHandleException(step) ==
    cli' = [ cli EXCEPT !.steps = CliEnter(step), !.raisedIn = step,
                        !.result = "False", !.pc = "finally" ]

\* main: pipeline.run(cleanup=cleanup, skip_transcription=skip_transcription)
CliStart ==
    /\ entry = "cli"
    /\ cli.pc = "idle"
    /\ \E c \in BOOLEAN, s \in BOOLEAN : \E whisper_model \in ArgModels :
        IF ValidModel(whisper_model)
        THEN /\ cli' = [ cli EXCEPT !.pc = "setup", !.cleanup = c,
                                    !.skip_transcription = s ]
             /\ proc' = [ whisper_model |-> whisper_model, exit |-> "none" ]
        ELSE /\ cli' = [ cli EXCEPT !.pc = "exited", !.cleanup = c,
                                    !.skip_transcription = s ]
             /\ proc' = [ whisper_model |-> whisper_model, exit |-> "1" ]
    /\ UNCHANGED << entry, call, appvars >>

\* Step 1: self.setup_directories()
CliSetupDirectories ==
    /\ cli.pc = "setup"
    /\ \E o \in {"ok", "raise"} :
        IF o = "ok"
        THEN cli' = [ cli EXCEPT !.steps = CliEnter("DirectorySetup"), !.pc = "preflight" ]
        ELSE CliHandleException("DirectorySetup")
    /\ UNCHANGED << entry, call, proc, appvars >>

\* Step 2: if not self.check_ffmpeg(): return False
CliCheckFfmpeg ==
    /\ cli.pc = "preflight"
    /\ \E o \in {"ok", "fail", "raise"} :
        CASE o = "ok"   -> cli' = [ cli EXCEPT !.steps = CliEnter("ToolPreflight"), !.pc = "fetch" ]
          [] o = "fail" -> CliReturn("ToolPreflight", "False")
          [] OTHER      -> CliHandleException("ToolPreflight")
    /\ UNCHANGED << entry, call, proc, appvars >>

\* Step 3: if not self.r2_manager.download_chunks(): return False
CliFetch ==
    /\ cli.pc = "fetch"
    /\ \E downloaded \in BOOLEAN :
        IF downloaded
        THEN cli' = [ cli EXCEPT !.steps = CliEnter("Fetch"), !.pc = "process" ]
        ELSE CliReturn("Fetch", "False")
    /\ UNCHANGED << entry, call, proc, appvars >>

\* Step 4: video_path, audio_path = self.process_chunks(); the call returns the
\* paths it produced (None for a missing one) or raises
CliProcessChunks ==
    /\ cli.pc = "process"
    /\ \E o \in {"ok", "raise"} : \E v \in {None, FinalVideo}, a \in {None, FinalAudio} :
        CASE o = "raise" -> CliHandleException("ProcessChunks")
          [] o = "ok" /\ v # None ->
                cli' = [ cli EXCEPT !.steps = CliEnter("ProcessChunks"),
                                    !.video_path = v, !.audio_path = a,
                                    !.pc = "transcribe" ]
          [] OTHER ->
                cli' = [ cli EXCEPT !.steps = CliEnter("ProcessChunks"),
                                    !.video_path = v, !.audio_path = a,
                                    !.result = "False", !.pc = "finally" ]
    /\ UNCHANGED << entry, call, proc, appvars >>

\* Step 5: if not skip_transcription and audio_path: self.transcribe_audio(...)
CliTranscribe ==
    /\ cli.pc = "transcribe"
    /\ IF ~cli.skip_transcription /\ cli.audio_path # None
       THEN \E t \in {None, TranscriptJson} :
            cli' = [ cli EXCEPT !.steps = CliEnter("Transcribe"),
                                !.transcript_path = t, !.pc = "publish" ]
       ELSE cli' = [ cli EXCEPT !.pc = "publish" ]
    /\ UNCHANGED << entry, call, proc, appvars >>

\* Step 6: if not self.r2_manager.upload_processed_files(...): return False
CliPublish ==
    /\ cli.pc = "publish"
    /\ \E uploaded \in BOOLEAN :
        CliReturn("Publish", IF uploaded THEN "True" ELSE "False")
    /\ UNCHANGED << entry, call, proc, appvars >>

\* finally: if cleanup: self.cleanup_local_files()
CliCleanupGuard == cli.cleanup

\* the finally block of run; cleanup_local_files catches its exceptions
CliFinally ==
    /\ cli.pc = "finally"
    /\ IF CliCleanupGuard
       THEN cli' = [ cli EXCEPT !.steps = CliEnter("Cleanup"),
                                !.cleanupCount = cli.cleanupCount + 1,
                                !.pc = "done" ]
       ELSE cli' = [ cli EXCEPT !.pc = "done" ]
    /\ proc' = [ proc EXCEPT !.exit = IF cli.result = "True" THEN "0" ELSE "1" ]
    /\ UNCHANGED << entry, call, appvars >>

\* ------------------------------------------------------------- behaviours
Next ==
    \/ Submit
    \/ RunPipeline
    \/ AppMain
    \/ StartRun
    \/ SetupDirectories
    \/ CheckFfmpeg
    \/ Fetch
    \/ Locate
    \/ AssembleVideo
    \/ AssembleAudio
    \/ ExtractAudioForTranscription
    \/ Transcribe
    \/ SaveAudio
    \/ Mux
    \/ Publish
    \/ Finally
    \/ CliStart
    \/ CliSetupDirectories
    \/ CliCheckFfmpeg
    \/ CliFetch
    \/ CliProcessChunks
    \/ CliTranscribe
    \/ CliPublish
    \/ CliFinally

Spec == Init /\ [][Next]_vars

\* the statements of run, executed one after the other by the thread of the run
RunStep ==
    \/ SetupDirectories
    \/ CheckFfmpeg
    \/ Fetch
    \/ Locate
    \/ AssembleVideo
    \/ AssembleAudio
    \/ ExtractAudioForTranscription
    \/ Transcribe
    \/ SaveAudio
    \/ Mux
    \/ Publish
    \/ Finally

\* ------------------------------------- a run after an earlier run of the job
\* what an earlier run of the same job left in the chunk directory when it
\* ended with cleanup disabled, or was interrupted after its download: the
\* chunks it had fetched, of both tracks or of the video alone
Leftovers == { Chunks, { c \in Chunks : c.track = "video" } }

\* a new process for the job; the directories of the earlier run are on disk
InitRerun ==
    /\ entry = "direct"
    /\ handlers = << >>
    /\ call = NoCall
    /\ InitProcess
    /\ local_dir = TRUE
    /\ output_dir = TRUE
    /\ chunkFiles \in Leftovers
    /\ outFiles = {}

NextRun ==
    \/ StartRun
    \/ RunStep

SpecRerun == InitRerun /\ [][NextRun]_vars

\* every call run makes returns or raises, and the thread of a started run
\* keeps executing: a run that can take a step eventually takes one
SpecFair == Spec /\ WF_vars(RunStep)

\* ------------------------------------------- Python floats (IEEE 754 doubles)
\* A non-negative float is held exactly: its integer part, and the bits of
\* its fraction after the binary point, first bit first, without trailing
\* zeros. The operations below are the correctly rounded operations of the
\* hardware (round to nearest, ties to even) for values whose integer part
\* fits the integers of the model and that are zero or at least 2^-32.
MantissaBits == 53

\* a positive quotient starts within this many bits after the binary point
MaxLeadingZeros == 32

\* the bits a division produces before it stops: enough to round from
QuotientBits == MaxLeadingZeros + MantissaBits + 1

RECURSIVE BitLen(_)
BitLen(n) == IF n = 0 THEN 0 ELSE 1 + BitLen(n \div 2)

\* the zero bits fb starts with
LeadingZeros(fb) ==
    IF \A i \in 1..Len(fb) : fb[i] = 0
    THEN Len(fb)
    ELSE (CHOOSE i \in 1..Len(fb) : fb[i] = 1 /\ \A j \in 1..(i - 1) : fb[j] = 0) - 1

\* fb without its trailing zeros
Trim(fb) ==
    LET ones == { i \in 1..Len(fb) : fb[i] = 1 }
    IN  IF ones = {} THEN << >>
        ELSE SubSeq(fb, 1, CHOOSE i \in ones : \A j \in ones : j <= i)

\* one unit added in the last place of fb: the new bits and the carry out
Increment(fb) ==
    LET zeros == { i \in 1..Len(fb) : fb[i] = 0 }
    IN  IF zeros = {}
        THEN [ fb |-> [ i \in 1..Len(fb) |-> 0 ], carry |-> 1 ]
        ELSE LET z == CHOOSE i \in zeros : \A j \in zeros : j <= i
             IN  [ fb |-> [ i \in 1..Len(fb) |->
                              IF i < z THEN fb[i] ELSE IF i = z THEN 1 ELSE 0 ],
                   carry |-> 0 ]

\* the double nearest to ip + 0.fb (+ something below the last bit of fb when
\* sticky): MantissaBits significant bits are kept, ties go to the even one
RoundToDouble(ip, fb, sticky) ==
    LET keep == IF ip > 0 THEN MantissaBits - BitLen(ip)
                          ELSE LeadingZeros(fb) + MantissaBits
    IN  IF Len(fb) <= keep
        THEN [ ip |-> ip, fb |-> Trim(fb) ]
        ELSE LET kept  == SubSeq(fb, 1, keep)
                 guard == fb[keep + 1]
                 rest  == sticky \/ \E i \in (keep + 2)..Len(fb) : fb[i] = 1
                 odd   == IF keep = 0 THEN ip % 2 = 1 ELSE fb[keep] = 1
                 inc   == Increment(kept)
             IN  IF guard = 1 /\ (rest \/ odd)
                 THEN [ ip |-> ip + inc.carry, fb |-> Trim(inc.fb) ]
                 ELSE [ ip |-> ip, fb |-> Trim(kept) ]

\* the bit of the fraction at a position; zero past its end
BitAt(fb, i) == IF i <= Len(fb) THEN fb[i] ELSE 0

\* long division of the fraction by c, positions lo..hi: rem is the remainder
\* brought in, the result the quotient bits and the remainder left. The
\* positions are worked through in two halves, the first before the second.
RECURSIVE DivFrac(_, _, _, _, _)
DivFrac(rem, fb, c, lo, hi) ==
    IF hi < lo THEN [ q |-> << >>, rem |-> rem ]
    ELSE IF lo = hi
    THEN LET v == 2 * rem + BitAt(fb, lo)
         IN  [ q |-> << v \div c >>, rem |-> v % c ]
    ELSE LET mid   == (lo + hi) \div 2
             first == DivFrac(rem, fb, c, lo, mid)
             then  == DivFrac(first.rem, fb, c, mid + 1, hi)
         IN  [ q |-> first.q \o then.q, rem |-> then.rem ]

\* x / c for a float x and a positive int c
FloatDiv(x, c) ==
    LET d == DivFrac(x.ip % c, x.fb, c, 1, QuotientBits)
        sticky == d.rem # 0 \/ \E i \in (QuotientBits + 1)..Len(x.fb) : x.fb[i] = 1
    IN  RoundToDouble(x.ip \div c, d.q, sticky)

\* a sequence, last element first
Reverse(q) == [ i \in 1..Len(q) |-> q[Len(q) + 1 - i] ]

\* c times a fraction whose bits are given last bit first, positions lo..hi,
\* plus the carry brought in from the bits before them: the bits of the
\* product at those positions and the carry out. The positions are worked
\* through in two halves, the first before the second.
RECURSIVE MulFrac(_, _, _, _, _)
MulFrac(rb, c, lo, hi, carry) ==
    IF hi < lo THEN [ rb |-> << >>, carry |-> carry ]
    ELSE IF lo = hi
    THEN LET v == rb[lo] * c + carry
         IN  [ rb |-> << v % 2 >>, carry |-> v \div 2 ]
    ELSE LET mid   == (lo + hi) \div 2
             first == MulFrac(rb, c, lo, mid, carry)
             then  == MulFrac(rb, c, mid + 1, hi, first.carry)
         IN  [ rb |-> first.rb \o then.rb, carry |-> then.carry ]

\* x * c for a float x and a positive int c
FloatMul(x, c) ==
    LET m == MulFrac(Reverse(x.fb), c, 1, Len(x.fb), 0)
    IN  RoundToDouble(x.ip * c + m.carry, Reverse(m.rb), FALSE)

\* x % c for a non-negative float x and a positive int c: exact
FloatMod(x, c) == [ ip |-> x.ip % c, fb |-> x.fb ]

\* int(x)
FloatInt(x) == x.ip

\* x - n for the int n = int(x): exact
FloatSubInt(x, n) == [ ip |-> x.ip - n, fb |-> x.fb ]

\* the float of an int
FloatOf(n) == [ ip |-> n, fb |-> << >> ]

\* the float a time of t whole milliseconds is as seconds: t / 1000
SecondsOfMillis(t) == FloatDiv(FloatOf(t), 1000)

\* f"{n:0<width>d}": the decimal digits of n, zero-padded to the width
RECURSIVE Digits(_, _)
Digits(n, width) ==
    IF n < 10 /\ width <= 1 THEN << n >>
    ELSE Digits(n \div 10, width - 1) \o << n % 10 >>

\* ------------------------------------------------------ WhisperTranscriber
\* format_timestamp(seconds): the fields of HH:MM:SS,mmm
FormatTimestamp(seconds) ==
    LET hours        == FloatInt(FloatDiv(seconds, 3600))
        minutes      == FloatInt(FloatDiv(FloatMod(seconds, 3600), 60))
        secs         == FloatMod(seconds, 60)
        milliseconds == FloatInt(FloatMul(FloatSubInt(secs, FloatInt(secs)), 1000))
    IN  [ hh |-> Digits(hours, 2), mm |-> Digits(minutes, 2),
          ss |-> Digits(FloatInt(secs), 2), ms |-> Digits(milliseconds, 3) ]

\* a segment of the result of model.transcribe: its times are floats, in seconds
GetSegments(transcription) ==
    IF "segments" \in DOMAIN transcription THEN transcription.segments ELSE << >>

\* str.strip() of a text held as its characters
Strip(text) ==
    LET inked == { i \in 1..Len(text) : text[i] # " " }
    IN  IF inked = {} THEN << >>
        ELSE SubSeq(text, CHOOSE i \in inked : \A j \in inked : i <= j,
                          CHOOSE i \in inked : \A j \in inked : j <= i)

\* f"{i}\n{start_time} --> {end_time}\n{text}\n\n": one cue of the subtitle file
Cue(i, segment) ==
    [ number |-> i,
      start  |-> FormatTimestamp(segment.start),
      end    |-> FormatTimestamp(segment.end),
      text   |-> Strip(segment.text) ]

\* for i, segment in enumerate(segments, i): srt_content += <cue>
RECURSIVE SrtCues(_, _)
SrtCues(segments, i) ==
    IF segments = << >> THEN << >>
    ELSE << Cue(i, Head(segments)) >> \o SrtCues(Tail(segments), i + 1)

\* faulty variant of ConvertToSrt: enumerate without its start argument
ConvertToSrtFromZero(transcription) == SrtCues(GetSegments(transcription), 0)

\* convert_to_srt(result): the cues of srt_content, in the order written
ConvertToSrt(transcription) == SrtCues(GetSegments(transcription), 1)

\* transcribe_audio: for segment in result.get("segments", []):
\* transcript_data["segments"].append({id, start, end, text.strip()})
RECURSIVE TranscriptSegments(_)
TranscriptSegments(segments) ==
    IF segments = << >> THEN << >>
    ELSE << [ id    |-> Head(segments).id,
              start |-> Head(segments).start,
              end   |-> Head(segments).end,
              text  |-> Strip(Head(segments).text) ] >>
           \o TranscriptSegments(Tail(segments))

\* ------------------------------------------------ format_timestamp on its own
\* times in whole milliseconds: every time up to MaxMillis, 1 h 2 min 5.4 s,
\* and a hundred hours
Millis == 0..MaxMillis \cup { 3725400, 360000000 }

InitTimestamp ==
    /\ entry = "function"
    /\ handlers = << >>
    /\ InitState
    /\ \E t \in Millis :
          call = [ fn |-> "format_timestamp", t |-> t, returned |-> FALSE,
                   ret |-> << >> ]

\* self.format_timestamp(seconds) for the float seconds = t / 1000
FormatTimestampCall ==
    /\ call.fn = "format_timestamp"
    /\ ~call.returned
    /\ call' = [ call EXCEPT !.returned = TRUE,
                             !.ret = FormatTimestamp(SecondsOfMillis(call.t)) ]
    /\ UNCHANGED << entry, cli, proc, appvars >>

SpecTimestamp == InitTimestamp /\ [][FormatTimestampCall]_vars

\* -------------------------- convert_to_srt and the segments of the transcript
\* the texts of segments: as whisper gives them, with a leading blank; blank
\* at the end; empty
Texts == { << " ", "h", "i" >>, << "o", "k", " " >>, << >> }

\* the segments whisper may return: id is set from the position below
SegmentsOf == [ start : { SecondsOfMillis(0), SecondsOfMillis(1001) },
                end   : { SecondsOfMillis(2500) },
                text  : Texts ]

\* the results of model.transcribe: up to MaxSegments segments numbered from
\* 0, or a result without the key "segments"
TranscribeResults ==
    { [ text |-> << >> ] }
      \cup { [ text |-> << >>,
               segments |-> [ i \in 1..n |->
                                [ id |-> i - 1, start |-> q[i].start,
                                  end |-> q[i].end, text |-> q[i].text ] ] ] :
             n \in 0..MaxSegments, q \in [ 1..MaxSegments -> SegmentsOf ] }

InitSrt ==
    /\ entry = "function"
    /\ handlers = << >>
    /\ InitState
    /\ \E transcription \in TranscribeResults :
          call = [ fn |-> "transcribe_audio", result |-> transcription,
                   returned |-> FALSE, ret |-> << >> ]

\* transcribe_audio from the result of model.transcribe on: the segments of
\* the JSON transcript and the cues of the subtitle file
WriteTranscriptsCall ==
    /\ call.fn = "transcribe_audio"
    /\ ~call.returned
    /\ call' = [ call EXCEPT
                    !.returned = TRUE,
                    !.ret = [ segments |-> TranscriptSegments(GetSegments(call.result)),
                              srt |-> ConvertToSrt(call.result) ] ]
    /\ UNCHANGED << entry, cli, proc, appvars >>

SpecSrt == InitSrt /\ [][WriteTranscriptsCall]_vars

\* ------------- find_chunk_sequences and concatenate_raw_chunks on their own
\* The chunk directories hold any set of these files: low indices with and
\* without gaps, the last index the scan reaches and the first it does not.
ProbeIndexes == { 0, 1, 2, ScanBound - 1, ScanBound }
ProbeFiles   == [ track : Tracks, index : ProbeIndexes ]

InitAssemble ==
    /\ entry = "function"
    /\ handlers = << >>
    /\ InitState
    /\ \E files \in SUBSET ProbeFiles :
          call = [ fn |-> "find_chunk_sequences", files |-> files,
                   returned |-> FALSE, ret |-> << >> ]

\* video_chunks, audio_chunks = processor.find_chunk_sequences()
FindChunkSequencesCall ==
    /\ call.fn = "find_chunk_sequences"
    /\ ~call.returned
    /\ call' = [ call EXCEPT !.returned = TRUE,
                             !.ret = [ t \in Tracks |->
                                          FindChunkSequences(call.files, t) ] ]
    /\ UNCHANGED << entry, cli, proc, appvars >>

\* processor.concatenate_raw_chunks(<track>_chunks, temp_dir / "<track>_concatenated.webm"):
\* what it wrote to the scratch file, the files of temp_dir afterwards and the
\* value it returned. A read error stops the splice after some of the chunks.
ConcatenateRawChunksCall ==
    /\ call.fn = "find_chunk_sequences"
    /\ call.returned
    /\ \E track \in Tracks, o \in ConcatOutcomes :
        LET chunks  == call.ret[track]
            output  == IF track = "video" THEN VideoConcat ELSE AudioConcat
            scratch == IF track = "video" THEN VideoScratch ELSE AudioScratch
            before  == IF track = "video" THEN {} ELSE { VideoConcat }
        IN
        \E k \in 0..Len(chunks) :
            /\ (o = "read_error") => k < Len(chunks)
            /\ (o # "read_error") => k = Len(chunks)
            /\ call' = [ fn |-> "concatenate_raw_chunks",
                         files |-> call.files,
                         track |-> track,
                         chunks |-> chunks,
                         o |-> o,
                         scratch |-> scratch,
                         returned |-> TRUE,
                         ret |-> [ value |-> ConcatenateRawChunks(chunks, o),
                                   written |-> RawSplice(track, SubSeq(chunks, 1, k)),
                                   dir |-> ConcatFiles(before, chunks, output,
                                                       scratch, o) ] ]
    /\ UNCHANGED << entry, cli, proc, appvars >>

NextAssemble ==
    \/ FindChunkSequencesCall
    \/ ConcatenateRawChunksCall

SpecAssemble == InitAssemble /\ [][NextAssemble]_vars


\* ------------------------- transcribe_audio, called repeatedly on one object
\* faulty variant of LoadModel: the loaded model is not kept on the object
LoadModelNotMemoized(loaded, o) ==
    [ invoked |-> TRUE, model |-> (loaded \/ o # "load_failed"),
      ret |-> (o # "load_failed") ]

\* load_model on a transcriber whose model is loaded or not: whether
\* whisper.load_model is invoked, self.model afterwards and the value returned
LoadModel(loaded, o) ==
    IF ~loaded
    THEN [ invoked |-> TRUE, model |-> (o # "load_failed"),
           ret |-> (o # "load_failed") ]
    ELSE [ invoked |-> FALSE, model |-> TRUE, ret |-> TRUE ]

\* transcriber = WhisperTranscriber(model_size): self.model = None
InitTranscriber ==
    /\ entry = "function"
    /\ handlers = << >>
    /\ InitState
    /\ call = [ fn |-> "WhisperTranscriber", log |-> << >> ]

\* transcriber.transcribe_audio(...): load_model first, then the body; the log
\* keeps, for each call, whether the loader was invoked and how the call ended.
\* whisper.load_model can fail only when it is invoked.
TranscribeAudioCall ==
    /\ call.fn = "WhisperTranscriber"
    /\ Len(call.log) < MaxCalls
    /\ \E o \in TranscribeOutcomes :
        LET l == LoadModel(model, o) IN
        /\ (o = "load_failed") => l.invoked
        /\ model' = l.model
        /\ outFiles' = outFiles \cup TranscribeFiles(o)
        /\ call' = [ call EXCEPT
                        !.log = Append(@, [ loader |-> l.invoked,
                                            loaded |-> l.ret,
                                            o |-> o,
                                            ret |-> TranscribeAudio(o) ]) ]
    /\ UNCHANGED << entry, cli, proc, pc, args, result, raised, local_dir,
                    output_dir, chunkFiles, temp, locals, steps, outcome, hist,
                    web >>

SpecTranscriber == InitTranscriber /\ [][TranscribeAudioCall]_vars

\* ------------------------------------------ download_chunks on its own
\* Object keys and file names are strings: sequences of characters. The
\* names of the model, spelled out.
Chars(name) ==
    CASE name = "recordings" -> << "r", "e", "c", "o", "r", "d", "i", "n", "g", "s" >>
      [] name = "chunks" -> << "c", "h", "u", "n", "k", "s" >>
      [] name = ".." -> << ".", "." >>
      [] name = "m1" -> << "m", "1" >>
      [] name = "t1" -> << "t", "1" >>
      [] name = "u1" -> << "u", "1" >>
      [] name = "u10" -> << "u", "1", "0" >>
      [] name = "u2" -> << "u", "2" >>
      [] name = "video" -> << "v", "i", "d", "e", "o" >>
      [] name = "audio" -> << "a", "u", "d", "i", "o" >>
      [] name = "video_0.webm" ->
            << "v", "i", "d", "e", "o", "_", "0", ".", "w", "e", "b", "m" >>
      [] name = "audio_0.webm" ->
            << "a", "u", "d", "i", "o", "_", "0", ".", "w", "e", "b", "m" >>

\* the string of a path: its components with "/" between them
RECURSIVE Text(_)
Text(path) ==
    IF path = << >> THEN << >>
    ELSE IF Len(path) = 1 THEN Chars(path[1])
    ELSE Chars(path[1]) \o << "/" >> \o Text(Tail(path))

\* the characters of the keys, in the order of their codes
Alphabet ==
    << ".", "/", "0", "1", "2", "_", "a", "b", "c", "d", "e", "g", "h", "i", "k",
       "m", "n", "o", "r", "s", "t", "u", "v", "w" >>

CharCode(c) == CHOOSE i \in 1..Len(Alphabet) : Alphabet[i] = c

\* a < b for strings: the order list_objects_v2 returns keys in
RECURSIVE StrLess(_, _)
StrLess(a, b) ==
    IF b = << >> THEN FALSE
    ELSE IF a = << >> THEN TRUE
    ELSE IF Head(a) # Head(b) THEN CharCode(Head(a)) < CharCode(Head(b))
    ELSE StrLess(Tail(a), Tail(b))

\* s.startswith(p)
StartsWith(s, p) == Len(p) <= Len(s) /\ SubSeq(s, 1, Len(p)) = p

\* s.split(sep)
RECURSIVE Split(_, _)
Split(s, sep) ==
    IF \E i \in 1..Len(s) : s[i] = sep
    THEN LET i == CHOOSE j \in 1..Len(s) :
                     s[j] = sep /\ \A k \in 1..(j - 1) : s[k] # sep
         IN  << SubSeq(s, 1, i - 1) >> \o Split(SubSeq(s, i + 1, Len(s)), sep)
    ELSE << s >>

RECURSIVE SortKeys(_)
SortKeys(S) ==
    IF S = {} THEN << >>
    ELSE LET first == CHOOSE x \in S : \A y \in S \ {x} : StrLess(x, y)
         IN  << first >> \o SortKeys(S \ {first})

\* self.s3.list_objects_v2(Bucket=..., Prefix=prefix): the keys of the bucket
\* that begin with the characters of prefix, in key order
ListObjectsV2(bucket, prefix) ==
    SortKeys({ key \in bucket : StartsWith(key, prefix) })

\* download_chunks: the local path an object is downloaded to
LocalFilePath(dir, key) ==
    LET parts == Split(key, "/")
        file == parts[Len(parts)]
        chunkType == Head(Split(Head(Split(file, ".")), "_"))
        DOWNLOAD_FOLDER == IF chunkType = Chars("audio")
                           THEN << "/" >> \o Chars("audio")
                           ELSE << "/" >> \o Chars("video")
    IN  dir \o DOWNLOAD_FOLDER \o << "/" >> \o file

\* jobs of one take, and a bucket that holds chunks of three users of the take
FetchUsers == { "u1", "u10", "u2" }
FetchJobs  == { << << "m1" >>, << "t1" >>, << u >> >> : u \in FetchUsers }
BucketKeys ==
    { Text(<< PREFIX, "m1", "t1", u, f >>) :
         u \in FetchUsers, f \in { "video_0.webm", "audio_0.webm" } }

InitFetch ==
    /\ entry = "function"
    /\ handlers = << >>
    /\ InitState
    /\ \E job \in FetchJobs, bucket \in SUBSET BucketKeys :
          call = [ fn |-> "download_chunks", job |-> job, bucket |-> bucket,
                   returned |-> FALSE, ret |-> << >> ]

\* r2_manager.download_chunks() of the pipeline of the job: the value it
\* returns and, for every object it downloaded, the file it wrote
DownloadChunksCall ==
    /\ call.fn = "download_chunks"
    /\ ~call.returned
    /\ LET p == PipelineOf(SetConfig(call.job[1], call.job[2], call.job[3]))
           listing == ListObjectsV2(call.bucket, Text(p.remote_dir))
       IN  \E failAt \in 0..(Len(listing) + 1) :
            LET d == DownloadChunks(listing, failAt) IN
            call' = [ call EXCEPT
                        !.returned = TRUE,
                        !.ret = [ value |-> d.ret,
                                  written |-> { [ key |-> key,
                                                  path |-> LocalFilePath(Text(p.local_dir), key) ] :
                                                key \in d.files } ] ]
    /\ UNCHANGED << entry, cli, proc, appvars >>

SpecFetch == InitFetch /\ [][DownloadChunksCall]_vars

\* ------------------------------------------------------------- properties
Rank(step) == CHOOSE i \in 1..Len(StepOrder) : StepOrder[i] = step

Entered(step) == step \in Range(steps)

Returned == pc \in {"finally", "done"}

\* the steps a run cannot do without; the others are optional
RequiredSteps ==
    { "DirectorySetup", "ToolPreflight", "Fetch", "Locate", "AssembleVideo",
      "Mux", "Publish" }

\* the stage of section 4.5 a step belongs to: locating and splicing the video
\* chunks are Assemble(video), saving the audio and muxing are Synchronize/Mux
StageOf(step) ==
    CASE step = "Locate"    -> "AssembleVideo"
      [] step = "SaveAudio" -> "Mux"
      [] OTHER              -> step

\* C1: the steps of a run are entered in the order DirectorySetup,
\* ToolPreflight, Fetch, Assemble(video), Assemble(audio),
\* ExtractAudioForTranscription, Transcribe, Synchronize/Mux, Publish, each at
\* most once, and a required step is entered only after every earlier required
\* step was entered and succeeded.
C1_StageOrder ==
    /\ \A i, j \in 1..Len(steps) :
          i < j => /\ Rank(steps[i]) < Rank(steps[j])
                   /\ Rank(StageOf(steps[i])) <= Rank(StageOf(steps[j]))
    /\ \A i \in 1..Len(steps) : \A r \in RequiredSteps :
          (steps[i] \in RequiredSteps /\ Rank(r) < Rank(steps[i]))
             => (Entered(r) /\ outcome[r] = "ok")

\* a run that went through every step
C1_Witness ==
    /\ pc = "done"
    /\ steps = StepOrder

\* C2: every accepted submission has its background thread construct the
\* pipeline and execute run: a thread that ended has gone through
\* DirectorySetup and ended with the success or failure run returned.
C2_AcceptedJobRuns ==
    \A i \in DOMAIN threads :
        threads[i].state = "finished"
           => (threads[i].outcome \in {"success", "failed"} /\ Entered("DirectorySetup"))

\* C3: a run started with cleanup enabled calls cleanup_local_files exactly
\* once before it returns, whatever happened before, and after every other
\* step; in the service's pipeline and in the command line script alike.
C3_CleanupExactlyOnce ==
    /\ (pc # "done") => (cleanupCount = 0 /\ ~Entered("Cleanup"))
    /\ (pc = "done" /\ cleanup)
          => /\ cleanupCount = 1
             /\ steps[Len(steps)] = "Cleanup"
             /\ \A i \in 1..(Len(steps) - 1) : steps[i] # "Cleanup"
    /\ (cli.pc # "done") => (cli.cleanupCount = 0)
    /\ (cli.pc = "done" /\ cli.cleanup)
          => /\ cli.cleanupCount = 1
             /\ cli.steps[Len(cli.steps)] = "Cleanup"
             /\ \A i \in 1..(Len(cli.steps) - 1) : cli.steps[i] # "Cleanup"

\* a run with cleanup enabled in which a step raised, after its cleanup
C3_Witness ==
    /\ pc = "done"
    /\ cleanup
    /\ outcome["SaveAudio"] = "raise"
    /\ cleanupCount = 1

\* C4: no exception leaves run: when a step raises, run returns False.
C4_NoExceptionEscapes ==
    /\ ~raised
    /\ (pc = "done") => (result \in {"True", "False"})
    /\ (\E st \in Steps : outcome[st] = "raise") => (Returned /\ result = "False")

\* a run that returned False because the mux invocation raised
C4_Witness ==
    /\ pc = "done"
    /\ outcome["Mux"] = "raise"
    /\ result = "False"

\* C5: when the listing holds no object, run returns False after Fetch: no
\* assembly, transcription or mux step is entered, nothing is uploaded, and the
\* cleanup the run was started with still takes place.
C5_EmptyListingFailsAtFetch ==
    (listed = << {} >>)
       => /\ Returned
          /\ result = "False"
          /\ outcome["Fetch"] = "fail"
          /\ \A st \in Range(steps) : st \in {"DirectorySetup", "ToolPreflight", "Fetch", "Cleanup"}
          /\ fetched = {}
          /\ uploads = << >>
          /\ (pc = "done" /\ cleanup) => (cleanupCount = 1 /\ Entered("Cleanup"))

\* a run with cleanup enabled whose listing was empty, after its cleanup
C5_Witness ==
    /\ pc = "done"
    /\ listed = << {} >>
    /\ cleanup
    /\ cleanupCount = 1

\* C6: when the check of ffmpeg fails, run returns False and nothing is listed,
\* downloaded, assembled or uploaded.
C6_PreflightFailureStops ==
    (outcome["ToolPreflight"] \in {"fail", "raise"})
       => /\ Returned
          /\ result = "False"
          /\ \A st \in Range(steps) : st \in {"DirectorySetup", "ToolPreflight", "Cleanup"}
          /\ listed = NotListed
          /\ fetched = {}
          /\ uploads = << >>

\* a run that ended because ffmpeg was not found
C6_Witness ==
    /\ pc = "done"
    /\ outcome["ToolPreflight"] = "fail"
    /\ result = "False"

\* C7: when no video chunk is located, or the splice or the timestamp repair of
\* the video fails, run returns False, Mux and Publish are never entered and
\* nothing is uploaded.
C7_VideoAssemblyFatal ==
    (outcome["Locate"] = "fail" \/ outcome["AssembleVideo"] \notin {"-", "ok"})
       => /\ Returned
          /\ result = "False"
          /\ ~Entered("SaveAudio") /\ ~Entered("Mux") /\ ~Entered("Publish")
          /\ video_path = None
          /\ uploads = << >>

\* a run whose chunks were fetched and located and whose video repair failed
C7_Witness ==
    /\ pc = "done"
    /\ outcome["Locate"] = "ok"
    /\ outcome["AssembleVideo"] = "ffmpeg_failed"
    /\ result = "False"

\* C8: when the audio assembly fails after the video assembly succeeded, the
\* run goes on: no audio is extracted or saved, nothing is transcribed, and
\* the mux is entered with the video as its only input.
C8_AudioFailureDegrades ==
    (outcome["AssembleVideo"] = "ok" /\ outcome["AssembleAudio"] \notin {"-", "ok"})
       => /\ audio_concat_path = None
          /\ saved_audio_path = None
          /\ transcript_paths = NoPaths
          /\ FinalAudio \notin outFiles
          /\ ~Entered("ExtractAudioForTranscription")
          /\ ~Entered("Transcribe")
          /\ ~Entered("SaveAudio")
          /\ Returned => (Entered("Mux") /\ muxInputs = {VideoConcat})

\* a run whose audio assembly failed and which returned True
C8_Witness ==
    /\ pc = "done"
    /\ outcome["AssembleAudio"] = "ffmpeg_failed"
    /\ result = "True"
    /\ uploads = << [ artifact |-> FinalVideo, ok |-> TRUE ] >>

\* C9: a run that reaches Publish tries to upload each of the final video, the
\* final audio and the subtitle that exists, once, whatever the earlier
\* uploads did, and returns False exactly when one of these uploads failed.
C9_PublishAttemptsAll ==
    (pc = "finally" /\ Entered("Publish"))
       => /\ { uploads[i].artifact : i \in 1..Len(uploads) } = Artifacts \cap outFiles
          /\ Len(uploads) = Cardinality(Artifacts \cap outFiles)
          /\ (result = "False") <=> (\E i \in 1..Len(uploads) : ~uploads[i].ok)
          /\ result \in {"True", "False"}

\* three artifacts exist, the first upload failed, the other two were tried
C9_Witness ==
    /\ pc = "finally"
    /\ Len(uploads) = 3
    /\ ~uploads[1].ok
    /\ uploads[2].ok
    /\ uploads[3].artifact = TranscriptSrt
    /\ result = "False"

\* C10: when a subtitle was produced and embedding it makes the mux fail, the
\* run still produces the final video and uploads it.
C10_SubtitleFailureDegrades ==
    (Returned /\ muxFailure = TranscriptSrt)
       => /\ Entered("Publish")
          /\ \E i \in 1..Len(uploads) : uploads[i].artifact = FinalVideo

\* the artifacts the attempts of upload_processed_files were made for
Uploaded == { uploads[i].artifact : i \in 1..Len(uploads) }

\* C11: when skip_transcription is set or no assembled audio exists, the
\* transcriber is never invoked and its model never loaded, no transcript or
\* subtitle file is written, no subtitle is an input of the mux and none is
\* uploaded; in the service's pipeline and in the command line script alike.
C11_TranscribeSkipped ==
    /\ (skip_transcription \/ audio_concat_path = None)
          => /\ ~Entered("Transcribe")
             /\ ~model
             /\ audio_wav_path = None
             /\ transcript_paths = NoPaths
             /\ srt_path = None
             /\ outFiles \cap { TranscriptJson, TranscriptSrt } = {}
             /\ TranscriptSrt \notin muxInputs
             /\ Uploaded \cap { TranscriptJson, TranscriptSrt } = {}
    /\ (cli.skip_transcription \/ cli.audio_path = None)
          => /\ "Transcribe" \notin Range(cli.steps)
             /\ cli.transcript_path = None

\* a run with skip_transcription whose audio was assembled, saved and uploaded
C11_Witness ==
    /\ pc = "done"
    /\ skip_transcription
    /\ outcome["AssembleAudio"] = "ok"
    /\ result = "True"
    /\ Uploaded = { FinalVideo, FinalAudio }

\* the ways transcribe_audio returns None
TranscribeFailures == { "load_failed", "transcribe_failed", "write_failed" }

\* C12: when loading the model or transcribing fails, run does not return at
\* that step: it goes on to save the audio and to mux, without a subtitle, as
\* a run without transcription does, and it returns True exactly when the mux
\* and every upload succeeded.
C12_TranscriptionFailureNonFatal ==
    (outcome["Transcribe"] \in TranscribeFailures)
       => /\ transcript_paths = NoPaths
          /\ srt_path = None
          /\ TranscriptSrt \notin muxInputs
          /\ TranscriptSrt \notin Uploaded
          /\ Returned => Entered("SaveAudio")
          /\ (Returned /\ outcome["SaveAudio"] # "raise")
                => (Entered("Mux") /\ muxInputs = { VideoConcat, AudioConcat })
          /\ (Returned /\ outcome["Mux"] = "ok") => Entered("Publish")
          /\ Returned => (result = "True" <=> outcome["Publish"] = "ok")

\* a run whose model could not be loaded and which published video and audio
C12_Witness ==
    /\ pc = "done"
    /\ outcome["Transcribe"] = "load_failed"
    /\ result = "True"
    /\ Uploaded = { FinalVideo, FinalAudio }

C14_NoAudioChunksVideoOnly ==
    (outcome["Locate"] = "ok" /\ audio_chunks = << >>)
       => /\ ~Entered("AssembleAudio")
          /\ ~Entered("ExtractAudioForTranscription")
          /\ ~Entered("Transcribe")
          /\ ~Entered("SaveAudio")
          /\ audio_concat_path = None
          /\ saved_audio_path = None
          /\ transcript_paths = NoPaths
          /\ srt_path = None
          /\ outFiles \subseteq { FinalVideo }
          /\ Entered("Mux") => muxInputs = { VideoConcat }
          /\ Uploaded \subseteq { FinalVideo }

\* a run on video chunks only that published the final video
C14_Witness ==
    /\ pc = "done"
    /\ outcome["Locate"] = "ok"
    /\ audio_chunks = << >>
    /\ transcript_paths = NoPaths
    /\ result = "True"
    /\ Uploaded = { FinalVideo }

\* p is a prefix of q
IsPrefix(p, q) == Len(p) <= Len(q) /\ SubSeq(q, 1, Len(p)) = p

\* every step of run was entered and succeeded, the cleanup included
AllStagesSucceeded == pc = "done" /\ \A st \in Steps : outcome[st] = "ok"

\* recordings/<meetingId>/<takeId>/
JobKeyPrefix == Plain(<< PREFIX >> \o pipeline.meeting_id \o pipeline.take)

\* C15 as stated: in a run where every stage succeeds with transcription
\* enabled, the final video, the final audio, the JSON transcript and the
\* subtitle are uploaded, each under recordings/<meetingId>/<takeId>/, and the
\* local directories are removed afterwards.
C15_FullRunPublishesAll ==
    AllStagesSucceeded
       => /\ Uploaded = { FinalVideo, FinalAudio, TranscriptJson, TranscriptSrt }
          /\ \A a \in Uploaded \cap Artifacts : IsPrefix(JobKeyPrefix, RemoteKeyOf(pipeline, a))
          /\ ~local_dir /\ ~output_dir

\* C15 amended: in a run with transcription and cleanup enabled where every
\* stage succeeds, the final video, the final audio and the subtitle are uploaded,
\* each once and under recordings/<meetingId>/<takeId>/, the JSON transcript is
\* not uploaded, and the local directories are removed afterwards.
C15_FullRunPublishes ==
    AllStagesSucceeded
       => /\ ~skip_transcription
          /\ Uploaded = { FinalVideo, FinalAudio, TranscriptSrt }
          /\ Len(uploads) = 3
          /\ \A i \in 1..Len(uploads) : uploads[i].ok
          /\ \A a \in Uploaded :
                /\ IsPrefix(JobKeyPrefix, RemoteKeyOf(pipeline, a))
                /\ Len(RemoteKeyOf(pipeline, a)) = Len(JobKeyPrefix) + Len(pipeline.user_id)
          /\ result = "True"
          /\ ~local_dir /\ ~output_dir
          /\ chunkFiles = {} /\ outFiles = {}

\* the run of job m1/t1/u1 in which every step succeeded
C15_Witness ==
    /\ AllStagesSucceeded
    /\ pipeline.meeting_id = << "m1" >>
    /\ pipeline.take = << "t1" >>
    /\ pipeline.user_id = << "u1" >>
    /\ Len(uploads) = 3
    /\ RemoteKeyOf(pipeline, FinalVideo)
         = << Part("", "recordings", ""), Part("", "m1", ""), Part("", "t1", ""),
              Part("final_video_", "u1", ".mp4") >>

\* C16: a submission whose whisper_model is not a valid model name is answered
\* with an error and starts no thread, every thread started has a valid model
\* name, and a command line with an invalid --whisper-model exits with status 1
\* before any step of a pipeline is executed.
C16_InvalidModelRejected ==
    /\ \A i \in DOMAIN responses :
          (responses[i].whisper_model # None /\ responses[i].whisper_model \notin valid_models)
             => (responses[i].code = 400 /\ responses[i].error = "model")
    /\ Len(threads) = Cardinality({ i \in DOMAIN responses : responses[i].code = 200 })
    /\ \A i \in DOMAIN threads : threads[i].whisper_model \in valid_models
    /\ (proc.whisper_model # None /\ proc.whisper_model \notin valid_models)
          => /\ proc.exit = "1"
             /\ cli.pc = IF entry = "cli" THEN "exited" ELSE "idle"
             /\ cli.steps = << >>
             /\ pc = "idle"
             /\ steps = << >>
             /\ pipeline = NoPipeline

\* the first submission asked for the model "huge" and was rejected, and no
\* thread was started
C16_Witness ==
    /\ Len(responses) = 1
    /\ responses[1].whisper_model = "huge"
    /\ responses[1].code = 400
    /\ threads = << >>

\* submit_data answered a request with an error
Rejected ==
    /\ Len(responses') = Len(responses) + 1
    /\ responses'[Len(responses')].code = 400

\* C17: a rejected submission leaves the module-level configuration as it was.
C17_RejectionLeavesConfig == [][ Rejected => config' = config ]_vars

\* C18: under every interleaving of two submissions, the configuration
\* set_config returns to a request is the one computed from the identifiers of
\* that request.
C18_ConfigFromOwnRequest ==
    \A h \in DOMAIN handlers :
        (handlers[h].pc \in { "respond", "done" })
           => handlers[h].ret = SetConfig(handlers[h].data.meeting_id,
                                          handlers[h].data.take,
                                          handlers[h].data.user_id)

\* the directory a path names: "." stays, ".." goes to the parent
NormStep(stack, c) ==
    IF c = "." THEN stack
    ELSE IF c = ".." /\ stack # << >> /\ stack[Len(stack)] # ".."
         THEN SubSeq(stack, 1, Len(stack) - 1)
         ELSE Append(stack, c)

RECURSIVE NormalizeFrom(_, _)
NormalizeFrom(stack, path) ==
    IF path = << >> THEN stack
    ELSE NormalizeFrom(NormStep(stack, Head(path)), Tail(path))

Normalize(path) == NormalizeFrom(<< >>, path)

\* the two paths name the same directory or one lies inside the other
Overlap(p, q) ==
    IsPrefix(Normalize(p), Normalize(q)) \/ IsPrefix(Normalize(q), Normalize(p))

\* p names a directory strictly inside root
Within(root, p) ==
    IsPrefix(Normalize(root), Normalize(p)) /\ Normalize(p) # Normalize(root)

\* the accepted submissions
Accepted == { i \in DOMAIN responses : responses[i].code = 200 }

\* C19: two accepted jobs with different (meeting_id, take, user_id) have local
\* chunk directories and output directories that are neither the same nor
\* nested, and no object key of one is an object key of the other.
C19_JobsDisjoint ==
    \A i, j \in Accepted :
        LET a == responses[i].config
            b == responses[j].config
        IN  (<< a.MEETING_ID, a.TAKE_, a.USER_ID >> # << b.MEETING_ID, b.TAKE_, b.USER_ID >>)
               => /\ ~Overlap(a.LOCAL_DIR, b.LOCAL_DIR)
                  /\ ~Overlap(a.OUTPUT_DIR, b.OUTPUT_DIR)
                  /\ \A x, y \in Artifacts :
                        RemoteKeyOf(PipelineOf(a), x) # RemoteKeyOf(PipelineOf(b), y)

\* an identifier that is one path component, and not "." or ".."
SafeComponent(id) == Len(id) = 1 /\ id[1] \notin { ".", ".." }

\* the configuration keeps the working directories inside chunks/ and recordings/
SafeConfig(meeting_id, take, user_id, local, output) ==
    /\ SafeComponent(meeting_id)
    /\ SafeComponent(take)
    /\ SafeComponent(user_id)
    /\ Within(<< "..", "chunks" >>, local)
    /\ Within(<< "..", "recordings" >>, output)

\* C20: every job a pipeline is started for has identifiers that are non-empty
\* and free of separators and of traversal components, and the directories its
\* cleanup removes lie inside chunks/ and recordings/.
C20_IdentifiersSafe ==
    /\ \A i \in Accepted :
          LET c == responses[i].config
          IN  SafeConfig(c.MEETING_ID, c.TAKE_, c.USER_ID, c.LOCAL_DIR, c.OUTPUT_DIR)
    /\ (pipeline # NoPipeline)
          => SafeConfig(pipeline.meeting_id, pipeline.take, pipeline.user_id,
                        pipeline.local_dir, pipeline.output_dir)

\* C21: the response to an accepted submission does not wait for the pipeline
\* thread and does not depend on it: the step that starts a thread is the step
\* that answers 200, the thread has not run by then, and no later step of a
\* thread (its start, its failure, its end) changes a response already given.
C21_ResponseIndependentOfThread ==
    [][ /\ \A i \in DOMAIN responses :
              i \in DOMAIN responses' /\ responses'[i] = responses[i]
        /\ (Len(threads') = Len(threads) + 1)
              => /\ Len(responses') = Len(responses) + 1
                 /\ responses'[Len(responses')].code = 200
                 /\ threads'[Len(threads')].state = "started"
        /\ (Len(threads') = Len(threads) /\ threads' # threads)
              => responses' = responses ]_vars

\* two submissions were accepted; the thread of the first has raised and
\* ended, the thread of the second has not run yet
C21_Witness ==
    /\ Len(responses) = 2
    /\ responses[1].code = 200
    /\ responses[2].code = 200
    /\ Len(threads) = 2
    /\ threads[1].state = "finished"
    /\ threads[1].outcome = "exception"
    /\ threads[2].state = "started"

\* C22: an exception raised while the working directories are removed is
\* swallowed: the finally block leaves the value run returns as it was and
\* raises nothing.
C22_CleanupFailureSwallowed ==
    [][ (pc = "finally" /\ pc' = "done")
           => (result' = result /\ raised' = raised /\ ~raised') ]_vars

\* a successful run whose cleanup failed returned True
C22_Witness ==
    /\ pc = "done"
    /\ "Cleanup" \in DOMAIN outcome
    /\ outcome["Cleanup"] = "fail"
    /\ result = "True"
    /\ ~raised

\* the step at which a failed run stopped: the last step entered before Cleanup
FatalStep ==
    LET work == SelectSeq(steps, LAMBDA st : st # "Cleanup")
    IN  IF work = << >> THEN None ELSE work[Len(work)]

\* C23: when a run ends in failure, the value it returns carries the first
\* fatal error, the step that caused the abort, and is not a bare boolean.
C23_FailureCarriesFirstError ==
    (pc = "done" /\ result # "True") => result = FatalStep

\* C30: the scoped temporary directory, with the assembled tracks and the
\* transcription WAV in it, is gone by the time run returns, whether run
\* succeeds, returns early on a failed stage or catches an exception.
C30_TempDirRemoved ==
    Returned => (~tempDir /\ tempFiles = {})

\* a run that assembled both tracks and extracted the WAV, then failed to
\* create the final video and returned early
C30_Witness ==
    /\ pc = "done"
    /\ outcome["ExtractAudioForTranscription"] = "ok"
    /\ outcome["Mux"] = "fail"
    /\ result = "False"
    /\ ~tempDir

\* the uploads of the run that stored an object
Stored == { i \in 1..Len(uploads) : uploads[i].ok }

\* the key the i-th upload of the run was made under
StoredKey(i) == RemoteKeyOf(pipeline, uploads[i].artifact)

\* <uploadPrefix>/<meetingId>/<takeId>/<stem><userId><ext>
KeyForm(stem, ext) ==
    RemoteKey(<< PREFIX >> \o pipeline.meeting_id \o pipeline.take, stem,
              pipeline.user_id, ext)

\* the three forms a stored key may have
KeyForms ==
    { KeyForm("final_video_", ".mp4"), KeyForm("final_audio_", ".wav"),
      KeyForm("subtitle_", ".srt") }

\* C25: every object a run stores has a key of exactly one of the forms
\* <uploadPrefix>/<meetingId>/<takeId>/final_video_<userId>.<ext>,
\* .../final_audio_<userId>.<ext> and .../subtitle_<userId>.srt, and the run
\* stores at most one object per form.
C25_StoredKeyForms ==
    /\ \A i \in Stored : StoredKey(i) \in KeyForms
    /\ \A i, j \in Stored : StoredKey(i) = StoredKey(j) => i = j
    /\ (pipeline # NoPipeline) => Cardinality(KeyForms) = 3

\* a run that stored the video, the audio and the subtitle
C25_Witness ==
    /\ pc = "done"
    /\ Cardinality(Stored) = 3
    /\ { StoredKey(i) : i \in Stored } = KeyForms

\* the indices i in 0..999 for which <track>_<i>.webm is among the files
Present(files, track) ==
    { f.index : f \in { g \in files : g.track = track /\ g.index \in 0..(ScanBound - 1) } }

StrictlyAscending(s) == \A i \in 1..(Len(s) - 1) : s[i] < s[i + 1]

\* C24: for every set of chunk files, find_chunk_sequences returns for each
\* track exactly the indices i in 0..999 for which <track>_<i>.webm exists,
\* each once, in strictly ascending order; gaps are tolerated and a track
\* without files yields the empty sequence.
C24_LocatedChunks ==
    (call.fn = "find_chunk_sequences" /\ call.returned)
       => \A t \in Tracks :
             /\ Range(call.ret[t]) = Present(call.files, t)
             /\ Len(call.ret[t]) = Cardinality(Present(call.files, t))
             /\ StrictlyAscending(call.ret[t])

\* the video directory holds the chunks 0, 2, 999 and 1000 and the audio
\* directory is empty: the scan returned 0, 2, 999 and the empty sequence
C24_Witness ==
    /\ call.fn = "find_chunk_sequences"
    /\ call.files = { [ track |-> "video", index |-> i ] : i \in { 0, 2, ScanBound - 1, ScanBound } }
    /\ call.returned
    /\ call.ret["video"] = << 0, 2, ScanBound - 1 >>
    /\ call.ret["audio"] = << >>

\* the bytes of the chunks of a track that the scan reaches, by ascending index
SplicedByIndex(files, track) ==
    LET sorted == SortedSeq(Present(files, track))
    IN  [ n \in 1..(2 * Len(sorted)) |->
            [ track |-> track, index |-> sorted[(n + 1) \div 2],
              byte |-> ((n - 1) % 2) + 1 ] ]

\* C28: the scratch file written by concatenate_raw_chunks is the byte
\* concatenation of the located chunks of the track in strictly ascending
\* index order, for every set of present indices, sets with gaps included;
\* a splice cut short by a read error has written a prefix of it.
C28_SpliceInIndexOrder ==
    (call.fn = "concatenate_raw_chunks")
       => /\ (call.o # "read_error")
                => call.ret.written = SplicedByIndex(call.files, call.track)
          /\ IsPrefix(call.ret.written, SplicedByIndex(call.files, call.track))

\* the audio chunks 0 and 2 were spliced, chunk 1 being absent
C28_Witness ==
    /\ call.fn = "concatenate_raw_chunks"
    /\ call.track = "audio"
    /\ call.chunks = << 0, 2 >>
    /\ call.o = "ok"
    /\ call.ret.written = ChunkBytes("audio", 0) \o ChunkBytes("audio", 2)

\* C29: after concatenate_raw_chunks returns, with success or after a read
\* error, a failing remux or a missing tool, the scratch file does not exist.
C29_ScratchRemoved ==
    (call.fn = "concatenate_raw_chunks") => call.scratch \notin call.ret.dir

\* the remux tool was missing: the call returned False and left no scratch file
C29_Witness ==
    /\ call.fn = "concatenate_raw_chunks"
    /\ call.chunks # << >>
    /\ call.o = "ffmpeg_missing"
    /\ call.ret.value = FALSE
    /\ call.scratch \notin call.ret.dir

\* the fields of HH:MM:SS,mmm for t whole milliseconds, in integer arithmetic
ExactTimestamp(t) ==
    [ hh |-> Digits(t \div 3600000, 2),
      mm |-> Digits((t \div 60000) % 60, 2),
      ss |-> Digits((t \div 1000) % 60, 2),
      ms |-> Digits(t % 1000, 3) ]

\* C27: for every time of t whole milliseconds, format_timestamp yields
\* HH:MM:SS,mmm with HH = t div 3600000 (not reduced modulo 24, at least two
\* digits), MM = (t div 60000) mod 60, SS = (t div 1000) mod 60 and
\* mmm = t mod 1000.
C27_TimestampExact ==
    (call.fn = "format_timestamp" /\ call.returned)
       => call.ret = ExactTimestamp(call.t)

\* C26: convert_to_srt emits one cue per segment of the result, in segment
\* order, numbered consecutively from 1: the cues are as many as the segments
\* of the structured transcript of the same result, and the i-th cue carries
\* the times and the text of its i-th segment.
C26_OneCuePerSegment ==
    (call.fn = "transcribe_audio" /\ call.returned)
       => /\ Len(call.ret.srt) = Len(GetSegments(call.result))
          /\ Len(call.ret.srt) = Len(call.ret.segments)
          /\ \A i \in 1..Len(call.ret.srt) :
                /\ call.ret.srt[i].number = i
                /\ call.ret.srt[i].text = call.ret.segments[i].text
                /\ call.ret.srt[i].start = FormatTimestamp(call.ret.segments[i].start)
                /\ call.ret.srt[i].end = FormatTimestamp(call.ret.segments[i].end)
                /\ call.ret.segments[i].id = call.result.segments[i].id

\* a result of three segments with different starts and texts made three cues
C26_Witness ==
    /\ call.fn = "transcribe_audio"
    /\ call.returned
    /\ Len(call.ret.srt) = 3
    /\ call.ret.srt[1].text = << "h", "i" >>
    /\ call.ret.srt[2].text = << >>
    /\ call.ret.srt[3].text = << "o", "k" >>
    /\ call.ret.srt[1].start # call.ret.srt[2].start

\* C31 (as stated): over any sequence of transcribe_audio calls on one
\* WhisperTranscriber the model loader is invoked at most once: after the
\* first load attempt no later call invokes it again.
C31_LoaderInvokedOnce ==
    (call.fn = "WhisperTranscriber")
       => Cardinality({ i \in 1..Len(call.log) : call.log[i].loader }) <= 1

\* C31 (amended): the model is loaded successfully at most once: after the
\* first call whose load succeeded no later call invokes the loader again,
\* and every earlier call invoked it and failed.
C31_LoadedOnce ==
    (call.fn = "WhisperTranscriber")
       => \A i \in 1..Len(call.log) :
             (call.log[i].loader /\ call.log[i].loaded)
                => /\ \A j \in (i + 1)..Len(call.log) :
                        ~call.log[j].loader /\ call.log[j].loaded
                   /\ \A j \in 1..(i - 1) :
                        call.log[j].loader /\ ~call.log[j].loaded

\* the first load failed, the second call loaded the model, the third reused it
C31_Witness ==
    /\ call.fn = "WhisperTranscriber"
    /\ Len(call.log) >= 3
    /\ call.log[1].loader /\ ~call.log[1].loaded /\ call.log[1].ret = NoPaths
    /\ call.log[2].loader /\ call.log[2].loaded
    /\ ~call.log[3].loader /\ call.log[3].ret # NoPaths

\* the place of a step in the steps of the run
StepIndex(step) == CHOOSE i \in 1..Len(steps) : steps[i] = step

C33_RunTerminates ==
    (pc = "setup") ~> (pc = "done" /\ result \in {"True", "False"} /\ ~raised)

\* a run that went through every step and ended in failure at the upload
C33_Witness ==
    /\ pc = "done"
    /\ result = "False"
    /\ ~raised
    /\ Len(steps) = Len(StepOrder)
    /\ outcome["Publish"] = "fail"

\* C34: download_chunks of job (meetingId, takeId, userId) downloads only
\* objects whose key lies under <prefix>/<meetingId>/<takeId>/<userId>/: no
\* object of another user or take is written into the chunk directories of
\* the job.
C34_FetchOnlyOwnObjects ==
    (call.fn = "download_chunks" /\ call.returned)
       => \A w \in call.ret.written :
             StartsWith(w.key,
                        Text(<< PREFIX >> \o call.job[1] \o call.job[2] \o call.job[3])
                           \o << "/" >>)

\* the chunk files of a track with the indices of a located sequence
FilesOf(track, chunks) == { [ track |-> track, index |-> i ] : i \in Range(chunks) }

\* C35: the chunks a run assembles are exactly the chunks the same run
\* fetched, also when an earlier run of the job left chunk files in the local
\* chunk directory: no file left by a previous run is assembled.
C35_AssemblesWhatItFetched ==
    /\ Entered("AssembleVideo")
          => FilesOf("video", video_chunks) = { c \in fetched : c.track = "video" }
    /\ Entered("AssembleAudio")
          => FilesOf("audio", audio_chunks) = { c \in fetched : c.track = "audio" }

\* the listing raised, or a download raised before every listed object was fetched
FetchRaised == Entered("Fetch") /\ (listed = NotListed \/ fetched # listed[1])

\* C36: when the listing or the download of one object raises during Fetch,
\* Fetch fails and the run returns False at that step: the chunks fetched so
\* far are not located, assembled, muxed or uploaded.
C36_FetchErrorAborts ==
    FetchRaised
       => /\ outcome["Fetch"] = "fail"
          /\ Returned
          /\ result = "False"
          /\ ~Entered("Locate")
          /\ ~Entered("AssembleVideo")
          /\ ~Entered("AssembleAudio")
          /\ ~Entered("Mux")
          /\ video_chunks = << >>
          /\ tempFiles = {}
          /\ uploads = << >>

\* the download of the last listed object raised after the others were
\* written: the run ended without locating the chunks
C36_Witness ==
    /\ pc = "done"
    /\ listed = << Chunks >>
    /\ Cardinality(fetched) = Cardinality(Chunks) - 1
    /\ fetched \subseteq chunkFiles
    /\ ~cleanup
    /\ result = "False"
    /\ steps = << "DirectorySetup", "ToolPreflight", "Fetch" >>

\* C37: run returns True only when the final video was stored in that run:
\* the uploads of the run include an upload of the final video, under the key
\* .../final_video_<userId>.mp4, that succeeded.
C37_SuccessMeansVideoStored ==
    (result = "True")
       => \E i \in Stored :
             /\ uploads[i].artifact = FinalVideo
             /\ StoredKey(i) = KeyForm("final_video_", ".mp4")

\* a run that returned True after it stored the video and the audio, and a
\* subtitle file was not produced
C37_Witness ==
    /\ pc = "done"
    /\ result = "True"
    /\ outcome["Transcribe"] = "transcribe_failed"
    /\ uploads = << [ artifact |-> FinalVideo, ok |-> TRUE ],
                    [ artifact |-> FinalAudio, ok |-> TRUE ] >>

\* the artifacts run hands to upload_processed_files
Handed ==
    (IF video_path # None THEN { video_path } ELSE {})
      \cup (IF saved_audio_path # None THEN { saved_audio_path } ELSE {})
      \cup (IF transcript_paths # NoPaths THEN { transcript_paths[2] } ELSE {})

\* C38: when the upload starts, the temporary directory is gone, cleanup has
\* not run, and the final video, the final audio and the subtitle file handed
\* to the upload exist under the output directory; every one of them is then
\* uploaded, and cleanup comes after the uploads.
C38_ArtifactsExistAtUpload ==
    /\ (pc = "publish")
          => /\ ~tempDir
             /\ tempFiles = {}
             /\ cleanupCount = 0
             /\ output_dir
             /\ FinalVideo \in Handed
             /\ Handed \subseteq outFiles
    /\ Entered("Publish")
          => /\ Uploaded = Handed
             /\ Entered("Cleanup") => StepIndex("Publish") < StepIndex("Cleanup")

\* the upload is about to start with the video, the audio and the subtitle
\* file in the output directory and the temporary directory removed
C38_Witness ==
    /\ pc = "publish"
    /\ cleanup
    /\ ~tempDir
    /\ Handed = { FinalVideo, FinalAudio, TranscriptSrt }
    /\ Handed \subseteq outFiles

\* C39: cleanup removes the two working directories independently: when the
\* removal of the local chunk directory fails, the removal of the output
\* directory is attempted all the same. An output directory that exists
\* after cleanup is one whose removal was attempted.
C39_RemovalsIndependent ==
    (Entered("Cleanup") /\ output_dir) => "output_dir" \in removals

====
